---- MODULE Spec2Model ----
(***************************************************************************)
(* A model of dspv: the specification registry (Schemas over NestMap, with *)
(* the regrouping of util.ts) and the recursive-descent loader             *)
(* (JsonParser + JsonSchema) of src/src/json.ts.                           *)
(*                                                                         *)
(* Representation.  Every union type of the program is a record whose      *)
(* fields name the variant, so that two variants never share a field of    *)
(* different type:                                                         *)
(*   TySpec / Nested<T>  [atom |-> a]            | [list |-> <<elements>>] *)
(*   Maybe<T>            <<>> (none)             | <<x>> (some)            *)
(*   JsonValue (tree)    [kind |-> "boolean", b |-> TRUE], ...             *)
(*   native value        [nb |-> TRUE], [nn |-> 1], [narr |-> <<...>>] ... *)
(*   Either / exception  [right |-> v] | [left |-> e] | [thrown |-> x]     *)
(* Strings that the program builds by concatenation are sequences of       *)
(* tokens.                                                                 *)
(***************************************************************************)
EXTENDS Integers, Sequences, FiniteSets, TLC

VARIABLES
    schemas,     \* the Schemas objects: default (built-ins), user (the caller's), parser (JsonParser.schemas)
    context,     \* JsonParser.context : Maybe<ParseContext>
    phase,       \* "idle" | "done": position of the caller
    call,        \* the operation last invoked, with its arguments
    result,      \* what that operation returned or threw
    trace,       \* the calls made and frames seen while it ran, in order
    registered   \* history: the addSpec calls made on the user registry, in order

vars == <<schemas, context, phase, call, result, trace, registered>>

---------------------------------------------------------------------------
(* Generic helpers on sequences and Maybe. *)

None == <<>>

Some(x) == <<x>>

isSome(m) == m # <<>>

unwrap(m) == m[1]

Min(a, b) == IF a < b THEN a ELSE b

Front(s) == SubSeq(s, 1, Len(s) - 1)

Range(s) == {s[i] : i \in 1..Len(s)}

RECURSIVE SelectSeqNot(_, _)
SelectSeqNot(s, x) ==
    IF s = <<>> THEN <<>>
    ELSE (IF Head(s) = x THEN <<>> ELSE <<Head(s)>>) \o SelectSeqNot(Tail(s), x)

IsPrefix(p, s) == Len(p) <= Len(s) /\ SubSeq(s, 1, Len(p)) = p

\* Let([x \in {e} |-> F(x)]) is F(e): the value of a function of one argument at
\* that argument.  It names an intermediate result that is computed once.
Let(f) == f[CHOOSE x \in DOMAIN f : TRUE]

---------------------------------------------------------------------------
(* util.ts: nested lists. *)

Atom(a) == [atom |-> a]

List(xs) == [list |-> xs]

isArray(x) == "list" \in DOMAIN x

isNonEmptyArray(x) == Len(x) > 0

RECURSIVE flatten(_)
flatten(arr) ==
    IF arr = <<>> THEN <<>>
    ELSE (IF isArray(arr[1]) THEN flatten(arr[1].list) ELSE <<arr[1]>>)
         \o flatten(Tail(arr))

flattenNonEmpty(xs) == flatten(xs)

Elem == [act |-> "elem"]

Skip == [act |-> "skip"]

RECURSIVE nestedActions(_, _)
nestedActions(xs, paren) ==
    IF xs = <<>> THEN <<>>
    ELSE (IF isArray(xs[1])
          THEN <<[act |-> "openParen", lvl |-> paren]>>
               \o nestedActions(xs[1].list, paren + 1)
               \o <<[act |-> "closeParen", lvl |-> paren]>>
          ELSE <<Elem>>)
         \o nestedActions(Tail(xs), paren)

\* Array.prototype.findIndex for the closing parenthesis of a level: 0-based, -1 when absent
RECURSIVE findIndexClose(_, _, _)
findIndexClose(actions, lvl, i) ==
    IF actions = <<>> THEN -1
    ELSE IF Head(actions).act = "closeParen" /\ Head(actions).lvl = lvl THEN i
    ELSE findIndexClose(Tail(actions), lvl, i + 1)

RECURSIVE countElemOrSkip(_)
countElemOrSkip(actions) ==
    IF actions = <<>> THEN 0
    ELSE (IF Head(actions).act \in {"elem", "skip"} THEN 1 ELSE 0)
         + countElemOrSkip(Tail(actions))

RECURSIVE countElem(_)
countElem(actions) ==
    IF actions = <<>> THEN 0
    ELSE (IF Head(actions).act = "elem" THEN 1 ELSE 0) + countElem(Tail(actions))

\* the while loop of groupingFromStartAsBestYouCan, on (actionsRest, xsRest, res)
RECURSIVE groupingLoop(_, _, _)
groupingLoop(actionsRest, xsRest, res) ==
    IF actionsRest = <<>> \/ xsRest = <<>> THEN res
    ELSE LET action == Head(actionsRest)
             rest   == Tail(actionsRest)
         IN  CASE action.act = "skip" ->
                    groupingLoop(rest, Tail(xsRest), res)
               [] action.act = "elem" ->
                    groupingLoop(rest, Tail(xsRest), Append(res, Head(xsRest)))
               [] action.act = "openParen" ->
                    LET closingIndex == findIndexClose(rest, action.lvl, 0)
                        \* splice(0, closingIndex): a negative count removes nothing
                        n            == IF closingIndex < 0 THEN 0 ELSE closingIndex
                        actionsInner == SubSeq(rest, 1, n)
                        m            == Min(countElemOrSkip(actionsInner), Len(xsRest))
                        xsInner      == SubSeq(xsRest, 1, m)
                    IN  groupingLoop(SubSeq(rest, n + 1, Len(rest)),
                                     SubSeq(xsRest, m + 1, Len(xsRest)),
                                     Append(res, List(groupingLoop(actionsInner, xsInner, <<>>))))
               [] OTHER -> \* closeParen: already handled by recursion
                    groupingLoop(rest, xsRest, res)

groupingFromStartAsBestYouCan(actions, xs) == groupingLoop(actions, xs, <<>>)

\* a variant that looks for empty groups at the top only
killEmptiesShallow(xs) ==
    SelectSeq(xs, LAMBDA e : ~isArray(e) \/ isNonEmptyArray(e.list))

RECURSIVE killEmpties(_)
killEmpties(xs) ==
    IF xs = <<>> THEN <<>>
    ELSE (IF isArray(xs[1])
          THEN LET inner == killEmpties(xs[1].list)
               IN  IF isNonEmptyArray(inner) THEN <<List(inner)>> ELSE <<>>
          ELSE <<xs[1]>>)
         \o killEmpties(Tail(xs))

RECURSIVE skipFirstN(_, _)
skipFirstN(actions, n) ==
    IF actions = <<>> THEN <<>>
    ELSE IF Head(actions).act = "elem" /\ n > 0
         THEN <<Skip>> \o skipFirstN(Tail(actions), n - 1)
         ELSE <<Head(actions)>> \o skipFirstN(Tail(actions), n)

\* the placeholders of [...Array(skipLen), ...suffix]
Undefined == [undefined |-> TRUE]

\* a variant that hands the suffix back flat
groupingStartAndEndFlat(groupedVersion, prefix, suffix) ==
    LET actions == nestedActions(groupedVersion, 0)
    IN  IF Len(prefix) + Len(suffix) # countElem(actions)
        THEN [thrown |-> [exc |-> "TypeError"]]
        ELSE [right |-> [prefixGrouped |-> groupingFromStartAsBestYouCan(actions, prefix),
                         suffixGrouped |-> suffix]]

groupingStartAndEnd(groupedVersion, prefix, suffix) ==
    LET actions == nestedActions(groupedVersion, 0)
    IN  IF Len(prefix) + Len(suffix) # countElem(actions)
        THEN [thrown |-> [exc |-> "TypeError"]]
        ELSE LET skipLen   == countElem(actions) - Len(suffix)
                 withSkips == [i \in 1..skipLen |-> Undefined] \o suffix
             IN  [right |-> [prefixGrouped |-> groupingFromStartAsBestYouCan(actions, prefix),
                             suffixGrouped |-> killEmpties(groupingFromStartAsBestYouCan(
                                                   skipFirstN(actions, skipLen), withSkips))]]

---------------------------------------------------------------------------
(* util.ts: NestMap.  A NestMap is the sequence of the entries of its Map, *)
(* in insertion order; an entry [key, val, sub] holds AtLeastOneOf<V,      *)
(* NestMap>: val some / sub none, val none / sub some, or both.            *)

NewNestMap == <<>>

indexOfKey(m, k) ==
    LET I == {i \in 1..Len(m) : m[i].key = k}
    IN  IF I = {} THEN 0 ELSE CHOOSE i \in I : TRUE

\* Map.prototype.set: an existing key keeps its position
mapSet(m, k, val, sub) ==
    LET i == indexOfKey(m, k)
        e == [key |-> k, val |-> val, sub |-> sub]
    IN  IF i = 0 THEN Append(m, e) ELSE [m EXCEPT ![i] = e]

getHere(m, k) ==
    LET i == indexOfKey(m, k)
    IN  IF i = 0 THEN None ELSE Some(m[i])

\* a setHere that keeps the loader or the description of the value it replaces
\* where the new value has none
setHereKeepingHalves(m, k, v) ==
    LET here == getHere(m, k)
        old  == IF here = None THEN None ELSE unwrap(here).val
        kept == IF old = None THEN v
                ELSE [v EXCEPT !.builder = IF @ = None THEN unwrap(old).builder ELSE @,
                               !.description = IF @ = None THEN unwrap(old).description ELSE @]
    IN  mapSet(m, k, Some(kept), IF here = None THEN None ELSE unwrap(here).sub)

setHere(m, k, v) ==
    LET here == getHere(m, k)
    IN  IF here = None THEN mapSet(m, k, Some(v), None)
        ELSE mapSet(m, k, Some(v), unwrap(here).sub)

setHereMap(m, k, sm) ==
    LET here == getHere(m, k)
    IN  IF here = None THEN mapSet(m, k, None, Some(sm))
        ELSE mapSet(m, k, unwrap(here).val, Some(sm))

setHereBoth(m, k, v, sm) == mapSet(m, k, Some(v), Some(sm))

\* the map setThere descends into: the existing one, or a new one
getHereOrCreate(m, k) ==
    LET here == getHere(m, k)
    IN  IF here = None THEN NewNestMap
        ELSE IF unwrap(here).sub = None THEN NewNestMap
        ELSE unwrap(unwrap(here).sub)

RECURSIVE setThere(_, _, _)
setThere(m, ks, v) ==
    IF isNonEmptyArray(Tail(ks))
    THEN setHereMap(m, Head(ks), setThere(getHereOrCreate(m, Head(ks)), Tail(ks), v))
    ELSE setHere(m, Head(ks), v)

set(m, ks, v) == setThere(m, ks, v)

RECURSIVE get(_, _)
get(m, ks) ==
    LET here == getHere(m, Head(ks))
    IN  IF here = None THEN None
        ELSE LET e == unwrap(here)
             IN  IF isNonEmptyArray(Tail(ks))
                 THEN IF e.sub = None THEN None ELSE get(unwrap(e.sub), Tail(ks))
                 ELSE e.val

RECURSIVE getBestAndRest(_, _)
\* a variant that falls back on the value held here when nothing is found below
getBestAndRestOrHere(m, ks) ==
    LET here == getHere(m, Head(ks))
    IN  IF here = None THEN None
        ELSE LET e == unwrap(here)
             IN  IF e.sub = None THEN Some([v |-> unwrap(e.val), rest |-> Tail(ks)])
                 ELSE IF isNonEmptyArray(Tail(ks))
                      THEN LET below == getBestAndRest(unwrap(e.sub), Tail(ks))
                           IN  IF below = None /\ e.val # None
                               THEN Some([v |-> unwrap(e.val), rest |-> Tail(ks)])
                               ELSE below
                      ELSE IF e.val = None THEN None
                           ELSE Some([v |-> unwrap(e.val), rest |-> <<>>])

getBestAndRest(m, ks) ==
    LET here == getHere(m, Head(ks))
    IN  IF here = None THEN None
        ELSE LET e == unwrap(here)
             IN  IF e.sub = None THEN Some([v |-> unwrap(e.val), rest |-> Tail(ks)])
                 ELSE IF isNonEmptyArray(Tail(ks))
                      THEN getBestAndRest(unwrap(e.sub), Tail(ks))
                      ELSE IF e.val = None THEN None
                           ELSE Some([v |-> unwrap(e.val), rest |-> <<>>])

getBestAndRestWithPath(m, ks) ==
    Let([r \in {getBestAndRest(m, ks)} |->
        IF r = None THEN None
        ELSE Some([path |-> SubSeq(ks, 1, Len(ks) - Len(unwrap(r).rest)),
                   v    |-> unwrap(r).v,
                   rest |-> unwrap(r).rest])])

\* traverseR with the callback of mergeWith, (acc, p, v) => acc.set(p, v).  The
\* for loop runs on st = [m |-> the entries still to visit, acc |-> start so far].
RECURSIVE traverseLoop(_, _)
\* a variant of the visit that passes by the value of a node that has a sub-map
visitEntryLeavesOnly(e, path, start) ==
    LET p   == Append(path, e.key)
        res == IF e.val = None \/ e.sub # None THEN start ELSE set(start, p, unwrap(e.val))
    IN  IF e.sub = None THEN res
        ELSE traverseLoop([m |-> unwrap(e.sub), acc |-> res], p)

visitEntry(e, path, start) ==
    LET p   == Append(path, e.key)
        res == IF e.val = None THEN start ELSE set(start, p, unwrap(e.val))
    IN  IF e.sub = None THEN res
        ELSE traverseLoop([m |-> unwrap(e.sub), acc |-> res], p)

traverseLoop(st, path) ==
    IF st.m = <<>> THEN st.acc
    ELSE traverseLoop([m |-> Tail(st.m), acc |-> visitEntry(Head(st.m), path, st.acc)], path)

traverseR(m, path, start) == traverseLoop([m |-> m, acc |-> start], path)

traverse(m, start) == traverseR(m, <<>>, start)

\* a variant of mergeWith that keeps the entries of `this` where both have one
mergeWithKeeping(this, m) == traverse(this, m)

mergeWith(this, m) == traverse(m, this)

\* the keys that hold a value, with their values, in traversal order
RECURSIVE entriesOf(_, _)
entriesOf(m, path) ==
    IF m = <<>> THEN <<>>
    ELSE LET e == Head(m)
             p == Append(path, e.key)
         IN  (IF e.val = None THEN <<>> ELSE <<[k |-> p, v |-> unwrap(e.val)]>>)
             \o (IF e.sub = None THEN <<>> ELSE entriesOf(unwrap(e.sub), p))
             \o entriesOf(Tail(m), path)

---------------------------------------------------------------------------
(* json.ts: specifications (TySpec) and their base descriptions. *)

\* atoms made with Symbol(...)
Symbols == {"AnyTy", "anyOf", "tuple", "Enum",
            "wants2Args", "justAString", "wantsNoArgs", "wants2To3Args", "wantsAtLeast1"}

\* atoms that are raw string or number arguments (TySpecArgRaw)
RawArgs == {"\"v1\"", "7"}

AnyTy == Atom("AnyTy")

argIsSpec(x) == isArray(x) \/ x.atom \notin RawArgs

tySpecAsGroupedBase(x) == IF isArray(x) THEN x.list ELSE <<x>>

flattenTySpec(x) == flattenNonEmpty(tySpecAsGroupedBase(x))

RECURSIVE join(_, _)
join(strs, sep) ==
    IF strs = <<>> THEN <<>>
    ELSE IF Len(strs) = 1 THEN strs[1]
    ELSE strs[1] \o <<sep>> \o join(Tail(strs), sep)

tySpecBaseDescription(t) ==
    IF t.atom \in Symbols THEN <<"Symbol(", t.atom, ")">>
    ELSE <<t.atom>>     \* JSON.stringify of a raw argument, 'null', or the constructor's name

RECURSIVE getDescriptionBase(_)
getDescriptionBase(spec) ==
    IF isArray(spec)
    THEN IF Len(spec.list) = 1 THEN getDescriptionBase(spec.list[1])
         ELSE <<"[">> \o join([i \in 1..Len(spec.list) |-> getDescriptionBase(spec.list[i])], ", ")
              \o <<"]">>
    ELSE tySpecBaseDescription(spec)

RECURSIVE tySpecDescription(_)
tySpecDescription(t) ==
    IF isArray(t)
    THEN <<"[">> \o join([i \in 1..Len(t.list) |-> tySpecDescription(t.list[i])], ", ") \o <<"]">>
    ELSE tySpecBaseDescription(t)

---------------------------------------------------------------------------
(* json.ts: arity.  A JavaScript function is [fn, length, rest]: its name, *)
(* its number of parameters before the first default or rest parameter,    *)
(* and whether it has a rest parameter.  A maximum is Finite(n) or         *)
(* Infinity.                                                               *)

Fn(name, length, rest) == [fn |-> name, length |-> length, rest |-> rest]

Finite(n) == <<n>>

Infinity == <<>>

hasRestParameter(f) == f.rest

WrongNumberOfArgumentsError(spec, numActual, minExpected, maxExpected) ==
    LET minStr == IF minExpected # 0 THEN <<"at least ", ToString(minExpected)>> ELSE <<>>
        maxStr == IF maxExpected # Infinity
                  THEN <<"at most ", ToString(maxExpected[1])>> ELSE <<>>
        expStr == IF maxExpected = Finite(minExpected) THEN <<"exactly ", ToString(minExpected)>>
                  ELSE IF minStr # <<>> /\ maxStr # <<>> THEN minStr \o <<" and ">> \o maxStr
                  ELSE minStr \o maxStr
    IN  [exc       |-> "WrongNumberOfArgumentsError",
         spec      |-> spec,
         numActual |-> numActual,
         expStr    |-> expStr,
         message   |-> <<"The specification ">> \o getDescriptionBase(spec)
                       \o <<" was given ", ToString(numActual), " argument",
                            IF numActual = 1 THEN "" ELSE "s", ", but expected ">>
                       \o expStr]

\* a variant that ignores maxArgs
argCheckerWithoutMaxArgs(spec, f, maxArgs) ==
    [spec         |-> spec,
     minArgs      |-> f.length,
     maxNumOfArgs |-> IF hasRestParameter(f) THEN Infinity ELSE Finite(f.length)]

\* the closure argChecker returns: what it captured
argChecker(spec, f, maxArgs) ==
    [spec         |-> spec,
     minArgs      |-> f.length,
     maxNumOfArgs |-> IF maxArgs # None THEN Finite(unwrap(maxArgs))
                      ELSE IF hasRestParameter(f) THEN Infinity ELSE Finite(f.length)]

\* calling that closure on args
checkArgs(chk, args) ==
    IF (chk.maxNumOfArgs # Infinity /\ Len(args) > chk.maxNumOfArgs[1]) \/ Len(args) < chk.minArgs
    THEN [thrown |-> WrongNumberOfArgumentsError(chk.spec, Len(args), chk.minArgs, chk.maxNumOfArgs)]
    ELSE [right |-> TRUE]

---------------------------------------------------------------------------
(* json.ts: JsonSchema.  A schema is its objectParser: a record of six     *)
(* loaders.  A loader is a TySpec, or a function [h |-> name, ...captured  *)
(* variables].                                                             *)

HandlerKeys == {"onArray", "onBoolean", "onNull", "onNumber", "onObject", "onString"}

allSchemasSame(f) == [k \in HandlerKeys |-> f]

\* a variant of the constructor whose unset handlers accept the node
JsonSchemaAcceptingTheRest(objectParser) ==
    [k \in HandlerKeys |-> IF k \in DOMAIN objectParser THEN objectParser[k]
                           ELSE [h |-> "unwrapFully"]]

JsonSchema(objectParser) ==
    [k \in HandlerKeys |-> IF k \in DOMAIN objectParser THEN objectParser[k]
                           ELSE [h |-> "failWithTypeError"]]

genArraySchema(eltSpec, onRes) == [h |-> "genArraySchema", eltSpec |-> eltSpec, onRes |-> onRes]

arraySchema(eltSpec, onRes) == JsonSchema([onArray |-> genArraySchema(eltSpec, onRes)])

genBooleanSchema(onRes) == [h |-> "genBooleanSchema", onRes |-> onRes]

booleanSchema(onRes) == JsonSchema([onBoolean |-> genBooleanSchema(onRes)])

genNullSchema(onRes) == [h |-> "genNullSchema", onRes |-> onRes]

nullSchema(onRes) == JsonSchema([onNull |-> genNullSchema(onRes)])

genNumberSchema(onRes) == [h |-> "genNumberSchema", onRes |-> onRes]

numberSchema(onRes) == JsonSchema([onNumber |-> genNumberSchema(onRes)])

\* kfun is constant in every use: _ => t
genObjectMapSchema(kfun, onRes) == [h |-> "genObjectMapSchema", kfun |-> kfun, onRes |-> onRes]

objectSchemaMap(kfun, onRes) == JsonSchema([onObject |-> genObjectMapSchema(kfun, onRes)])

\* ks: the declared fields <<[key, spec], ...>> in enumeration order
objectSchema(ks, onRes) ==
    JsonSchema([onObject |-> [h |-> "objectSchema", ks |-> ks, onRes |-> onRes]])

genStringSchema(onRes) == [h |-> "genStringSchema", onRes |-> onRes]

stringSchema(onRes) == JsonSchema([onString |-> genStringSchema(onRes)])

customSchema(specs) == JsonSchema(specs)

---------------------------------------------------------------------------
(* json.ts: Schemas.  `schemas` maps the name of a Schemas object to its   *)
(* NestMap (Schemas.specs); a description function remembers the object it *)
(* was registered on (the `this` of its getDesc callback) by that name.    *)

SpecEntry(accepts, description, build) ==
    [accepts |-> accepts, description |-> description, builder |-> build]

getBuilder(sp) ==
    IF sp.builder = None THEN None ELSE Some([ty |-> sp.accepts, f |-> unwrap(sp.builder)])

getDescriptionFn(sp) ==
    IF sp.description = None THEN None
    ELSE Some([ty |-> sp.accepts, f |-> unwrap(sp.description)])

\* opts: [accepts, description, maxArgs, load], the last three Maybe.
\*   description: [text |-> tokens] or [descr |-> Fn] (the function obtained from getDesc)
\*   load:        [schema |-> JsonSchema] or [loader |-> Fn]
addSpecBase(specs, this, spec, opts) ==
    LET s == flattenTySpec(spec)
        description == opts.description
        descFn ==
            IF description = None THEN None
            ELSE IF "text" \in DOMAIN unwrap(description)
                 THEN Some([const |-> unwrap(description).text])
                 ELSE Some([checkArgs |-> argChecker(List(s), unwrap(description).descr, opts.maxArgs),
                            innerDesc |-> unwrap(description).descr,
                            getDesc   |-> this])
        load == opts.load
        builder ==
            IF load = None THEN None
            ELSE IF "schema" \in DOMAIN unwrap(load)
                 THEN Some([ready |-> unwrap(load).schema])
                 ELSE Some([checkArgs |-> argChecker(List(s), unwrap(load).loader, opts.maxArgs),
                            load      |-> unwrap(load).loader])
    IN  set(specs, s, SpecEntry(opts.accepts, descFn, builder))

addSpec(specs, this, spec, opts) ==
    addSpecBase(specs, this, spec,
                [accepts |-> "specs", description |-> opts.description,
                 maxArgs |-> opts.maxArgs, load |-> opts.load])

addMixedSpec(specs, this, spec, opts) ==
    addSpecBase(specs, this, spec,
                [accepts |-> "mixed", description |-> opts.description,
                 maxArgs |-> opts.maxArgs, load |-> opts.load])

\* right(Maybe<[specMatch, foundSpec, args]>), or the TypeError of groupingStartAndEnd
mostSpecificSpec(specs, spec) ==
    Let([found \in {getBestAndRestWithPath(specs, flattenTySpec(spec))} |->
        IF found = None THEN [right |-> None]
        ELSE Let([g \in {groupingStartAndEnd(tySpecAsGroupedBase(spec),
                                             unwrap(found).path, unwrap(found).rest)} |->
                 IF "thrown" \in DOMAIN g THEN g
                 ELSE LET specMatch == g.right.prefixGrouped
                      IN  [right |-> Some([specMatch |-> IF Len(specMatch) > 1 THEN List(specMatch)
                                                         ELSE specMatch[1],
                                           foundSpec |-> unwrap(found).v,
                                           args      |-> g.right.suffixGrouped])]])])

mostSpecificSchema(specs, spec) ==
    Let([c \in {mostSpecificSpec(specs, spec)} |->
        IF "thrown" \in DOMAIN c THEN c
        ELSE IF c.right = None THEN c
        ELSE LET b == getBuilder(unwrap(c.right).foundSpec)
             IN  IF b = None THEN [right |-> None]
                 ELSE [right |-> Some([specMatch |-> unwrap(c.right).specMatch,
                                       ty        |-> unwrap(b).ty,
                                       f         |-> unwrap(b).f,
                                       args      |-> unwrap(c.right).args])]])

mostSpecificDescription(specs, spec) ==
    Let([c \in {mostSpecificSpec(specs, spec)} |->
        IF "thrown" \in DOMAIN c THEN c
        ELSE IF c.right = None THEN c
        ELSE LET d == getDescriptionFn(unwrap(c.right).foundSpec)
             IN  IF d = None THEN [right |-> None]
                 ELSE [right |-> Some([specMatch |-> unwrap(c.right).specMatch,
                                       ty        |-> unwrap(d).ty,
                                       f         |-> unwrap(d).f,
                                       args      |-> unwrap(c.right).args])]])

NonSpecArgument == [exc |-> "Error", message |-> <<"passed non-spec argument">>]

\* args[i], or the parameter's default AnyTy when fewer arguments were passed
argOrAnyTy(args, i) == IF i <= Len(args) THEN args[i] ELSE AnyTy

\* the bodies of the loader functions registered by defaultSchema and by the tests
callLoader(load, args) ==
    CASE load.fn = "anyOf" ->
            customSchema(allSchemasSame([h |-> "anyOf", tys |-> args]))
      [] load.fn = "AnyTy" ->
            customSchema(allSchemasSame([h |-> "unwrapFully"]))
      [] load.fn = "Array" ->
            arraySchema(argOrAnyTy(args, 1), "id")
      [] load.fn = "Enum" ->
            customSchema(allSchemasSame([h |-> "Enum", args |-> args]))
      [] load.fn = "Map" ->
            objectSchemaMap(argOrAnyTy(args, 1), "id")
      [] load.fn = "Object" ->
            objectSchemaMap(argOrAnyTy(args, 1), "mapToObject")
      [] load.fn = "Set" ->
            arraySchema(argOrAnyTy(args, 1), "Set")
      [] load.fn = "tuple" ->
            customSchema([onArray |-> [h |-> "tuple", tys |-> args]])
      [] load.fn = "MyArray" ->
            arraySchema(argOrAnyTy(args, 1), "MyArray")
      [] load.fn = "wants2Args" ->
            arraySchema(List(<<Atom("Map"), Atom("Number"), Atom("Boolean")>>), "id")
      [] OTHER -> \* wantsNoArgs, wants2To3Args, ...: (..) => JsonSchema.booleanSchema(x => x)
            booleanSchema("id")

\* calling a SchemaBuilder made by addSpecBase
callBuilder(f, args) ==
    IF "ready" \in DOMAIN f THEN [right |-> f.ready]
    ELSE Let([chk \in {checkArgs(f.checkArgs, args)} |->
             IF "thrown" \in DOMAIN chk THEN chk
             ELSE [right |-> callLoader(f.load, args)]])

\* right(Maybe<JsonSchema>), or what the lookup or the builder threw
getSchemaForSpec(specs, spec) ==
    Let([m \in {mostSpecificSchema(specs, spec)} |->
        IF "thrown" \in DOMAIN m THEN m
        ELSE IF m.right = None THEN m
        ELSE LET c == unwrap(m.right)
             IN  IF c.ty = "specs" /\ \E i \in 1..Len(c.args) : ~argIsSpec(c.args[i])
                 THEN [thrown |-> NonSpecArgument]
                 ELSE Let([b \in {callBuilder(c.f, c.args)} |->
                          IF "thrown" \in DOMAIN b THEN b ELSE [right |-> Some(b.right)]])])

\* the specs a description function passes to getDesc, in order
describedArgs(innerDesc, args) ==
    CASE innerDesc.fn \in {"Array", "Map", "Object"} -> <<argOrAnyTy(args, 1)>>
      [] innerDesc.fn = "Enum"          -> args
      [] innerDesc.fn = "wants2Args"    -> <<args[1], args[2]>>
      [] innerDesc.fn = "wants2To3Args" -> <<args[1], args[2], argOrAnyTy(args, 3)>>
      [] OTHER                          -> <<>>

\* the string a description function builds from the descriptions ds of those specs
describedAs(innerDesc, ds) ==
    CASE innerDesc.fn = "Array"         -> <<"Array of ">> \o ds[1]
      [] innerDesc.fn = "Map"           -> <<"Map with string keys and values matching ">> \o ds[1]
      [] innerDesc.fn = "Object"        -> <<"Object whose values are ">> \o ds[1]
      [] innerDesc.fn = "Enum"          -> <<"One of the following (Enum): ">> \o join(ds, " OR ")
      [] innerDesc.fn = "wants2Args"    -> <<"the description with ">> \o ds[1] \o <<" and ">> \o ds[2]
      [] innerDesc.fn = "wants2To3Args" -> join(ds, " and ")
      [] OTHER                          -> <<"wanted no args">>

RECURSIVE getDescription(_, _, _)
RECURSIVE getDescriptions(_, _, _)
\* ts.map(t => this.getDescription(t)): right(<<strings>>), or the first exception
getDescriptions(H, this, ts) ==
    IF ts = <<>> THEN [right |-> <<>>]
    ELSE Let([d \in {getDescription(H, this, Head(ts))} |->
             IF "thrown" \in DOMAIN d THEN d
             ELSE Let([r \in {getDescriptions(H, this, Tail(ts))} |->
                      IF "thrown" \in DOMAIN r THEN r ELSE [right |-> <<d.right>> \o r.right]])])

\* a DescriptionFn whose getDesc is bound to the registry of the parser
callDescriptionFnOfParser(H, f, args) ==
    IF "const" \in DOMAIN f THEN [right |-> f.const]
    ELSE Let([chk \in {checkArgs(f.checkArgs, args)} |->
             IF "thrown" \in DOMAIN chk THEN chk
             ELSE Let([ds \in {getDescriptions(H, "parser", describedArgs(f.innerDesc, args))} |->
                      IF "thrown" \in DOMAIN ds THEN ds
                      ELSE [right |-> describedAs(f.innerDesc, ds.right)]])])

\* calling a DescriptionFn made by addSpecBase
callDescriptionFn(H, f, args) ==
    IF "const" \in DOMAIN f THEN [right |-> f.const]
    ELSE Let([chk \in {checkArgs(f.checkArgs, args)} |->
             IF "thrown" \in DOMAIN chk THEN chk
             ELSE Let([ds \in {getDescriptions(H, f.getDesc, describedArgs(f.innerDesc, args))} |->
                      IF "thrown" \in DOMAIN ds THEN ds
                      ELSE [right |-> describedAs(f.innerDesc, ds.right)]])])

\* right(string), or what the lookup or the description function threw
getDescription(H, this, spec) ==
    IF ~argIsSpec(spec) THEN [right |-> <<spec.atom>>]
    ELSE Let([m \in {mostSpecificDescription(H[this], spec)} |->
             IF "thrown" \in DOMAIN m THEN m
             ELSE IF m.right = None
                  THEN IF isArray(spec)
                       THEN Let([ds \in {getDescriptions(H, this, spec.list)} |->
                                IF "thrown" \in DOMAIN ds THEN ds
                                ELSE [right |-> <<"[">> \o join(ds.right, ", ") \o <<"]">>]])
                       ELSE [right |-> tySpecBaseDescription(spec)]
                  ELSE LET c == unwrap(m.right)
                       IN  IF c.ty = "specs" /\ \E i \in 1..Len(c.args) : ~argIsSpec(c.args[i])
                           THEN [thrown |-> NonSpecArgument]
                           ELSE callDescriptionFn(H, c.f, c.args)])

emptySchemas == NewNestMap

\* Schemas.mergeWith: this.specs afterwards
schemasMergeWith(thisSpecs, otherSpecs) ==
    mergeWith(mergeWith(NewNestMap, thisSpecs), otherSpecs)

RECURSIVE mergeSchemasInto(_, _)
mergeSchemasInto(newSchemas, ss) ==
    IF ss = <<>> THEN newSchemas
    ELSE mergeSchemasInto(schemasMergeWith(newSchemas, Head(ss)), Tail(ss))

\* mergeSchemas(...schemas), on the sequence of its arguments
mergeSchemas(ss) == mergeSchemasInto(emptySchemas, ss)

Opts(description, maxArgs, load) ==
    [description |-> description, maxArgs |-> maxArgs, load |-> load]

Text(str) == Some([text |-> <<str>>])

Descr(f) == Some([descr |-> f])

Loader(f) == Some([loader |-> f])

Schema(sch) == Some([schema |-> sch])

\* addSpec / addMixedSpec calls as data: [mixed, spec, opts]
Registration(mixed, spec, opts) == [mixed |-> mixed, spec |-> spec, opts |-> opts]

register(specs, this, r) ==
    IF r.mixed THEN addMixedSpec(specs, this, r.spec, r.opts)
    ELSE addSpec(specs, this, r.spec, r.opts)

\* a chain of addSpec calls, on st = [rs |-> the calls still to make, specs]
RECURSIVE registerLoop(_, _)
registerLoop(st, this) ==
    IF st.rs = <<>> THEN st.specs
    ELSE registerLoop([rs |-> Tail(st.rs), specs |-> register(st.specs, this, Head(st.rs))], this)

registerAll(specs, this, rs) == registerLoop([rs |-> rs, specs |-> specs], this)

defaultRegistrations ==
    << Registration(FALSE, Atom("anyOf"), Opts(None, None, Loader(Fn("anyOf", 0, TRUE)))),
       Registration(FALSE, AnyTy, Opts(Text("anything"), None, Loader(Fn("AnyTy", 0, FALSE)))),
       Registration(FALSE, Atom("Array"),
                    Opts(Descr(Fn("Array", 0, FALSE)), Some(1), Loader(Fn("Array", 0, FALSE)))),
       Registration(FALSE, Atom("Boolean"), Opts(Text("boolean"), None, Schema(booleanSchema("id")))),
       Registration(TRUE, Atom("Enum"),
                    Opts(Descr(Fn("Enum", 0, TRUE)), None, Loader(Fn("Enum", 0, TRUE)))),
       Registration(FALSE, Atom("Map"),
                    Opts(Descr(Fn("Map", 0, FALSE)), Some(1), Loader(Fn("Map", 0, FALSE)))),
       Registration(FALSE, Atom("null"), Opts(Text("null"), None, Schema(nullSchema("id")))),
       Registration(FALSE, Atom("Number"), Opts(Text("number"), None, Schema(numberSchema("id")))),
       Registration(FALSE, Atom("Object"),
                    Opts(Descr(Fn("Object", 0, FALSE)), Some(1), Loader(Fn("Object", 0, FALSE)))),
       Registration(FALSE, Atom("Set"), Opts(None, Some(1), Loader(Fn("Set", 0, FALSE)))),
       Registration(FALSE, Atom("String"), Opts(Text("string"), None, Schema(stringSchema("id")))),
       Registration(FALSE, Atom("tuple"), Opts(None, None, Loader(Fn("tuple", 0, TRUE)))) >>

defaultSchema == registerAll(emptySchemas, "default", defaultRegistrations)

---------------------------------------------------------------------------
(* json.ts: JSON values.  A value as JSON.parse returns it (JsonValueRaw)  *)
(* is [boolean |-> b], [number |-> n], [string |-> s], [null |-> TRUE],    *)
(* [array |-> <<values>>] or [object |-> <<[k, v], ...>>] with its keys in *)
(* enumeration order.  A GenJsonValue carries its type name in ty.         *)

IsThrown(r) == "thrown" \in DOMAIN r

IsLeft(r) == "left" \in DOMAIN r

IsRight(r) == "right" \in DOMAIN r

\* o[k] = v on an object kept as the sequence of its properties
objSet(fs, k, v) ==
    LET I == {i \in 1..Len(fs) : fs[i].k = k}
    IN  IF I = {} THEN Append(fs, [k |-> k, v |-> v])
        ELSE [fs EXCEPT ![CHOOSE i \in I : TRUE] = [k |-> k, v |-> v]]

\* res[k] = v on the object res = {} that toJsonValue fills: the name __proto__
\* is the accessor of Object.prototype, so assigning an object to it makes that
\* object the prototype of res and adds no property.  An object node is
\* [ty, object |-> its own properties], with proto |-> that prototype when set.
ProtoKey == "__proto__"

isOwnKey(m) == m.k # ProtoKey

RECURSIVE toJsonValue(_)
toJsonValue(x) ==
    CASE "string" \in DOMAIN x  -> [ty |-> "string", string |-> x.string]
      [] "boolean" \in DOMAIN x -> [ty |-> "boolean", boolean |-> x.boolean]
      [] "number" \in DOMAIN x  -> [ty |-> "number", number |-> x.number]
      [] "null" \in DOMAIN x    -> [ty |-> "null"]
      [] "array" \in DOMAIN x   ->
            [ty |-> "array", array |-> [i \in 1..Len(x.array) |-> toJsonValue(x.array[i])]]
      [] OTHER ->
            LET own   == SelectSeq(x.object, isOwnKey)
                node  == [ty |-> "object",
                          object |-> [i \in 1..Len(own) |->
                                         [k |-> own[i].k, v |-> toJsonValue(own[i].v)]]]
                proto == {i \in 1..Len(x.object) : x.object[i].k = ProtoKey}
            IN  IF proto = {} THEN node
                ELSE [ty |-> "object", object |-> node.object,
                      proto |-> toJsonValue(x.object[CHOOSE i \in proto : TRUE].v)]

\* what obj[k] is for an inherited k: a field of the prototype node, which is no
\* JsonValue, so that calling a JsonValue method on it is a TypeError
NotAJsonValue == [notNode |-> TRUE]

NotAFunction == [exc |-> "TypeError", message |-> <<"is not a function">>]

\* for (const k in obj) with obj[k], on an object node: its own properties, then
\* the enumerable fields value and ty of its prototype that no own property hides
forIn(jv) ==
    jv.object \o
    (IF "proto" \in DOMAIN jv
     THEN SelectSeq(<<[k |-> "value", v |-> NotAJsonValue], [k |-> "ty", v |-> NotAJsonValue]>>,
                    LAMBDA m : \A i \in 1..Len(jv.object) : jv.object[i].k # m.k)
     ELSE <<>>)

\* right(the raw value), or the TypeError of calling unwrapFully on what is no JsonValue
RECURSIVE unwrapFully(_)
RECURSIVE unwrapFullyAll(_, _)
\* the loops of unwrapFully over the elements vs still to unwrap, res so far
unwrapFullyAll(vs, res) ==
    IF vs = <<>> THEN [right |-> res]
    ELSE Let([u \in {unwrapFully(Head(vs))} |->
             IF "thrown" \in DOMAIN u THEN u
             ELSE unwrapFullyAll(Tail(vs), Append(res, u.right))])

unwrapFully(jv) ==
    CASE "notNode" \in DOMAIN jv -> [thrown |-> NotAFunction]
      [] jv.ty = "array"   ->
            Let([us \in {unwrapFullyAll(jv.array, <<>>)} |->
                IF "thrown" \in DOMAIN us THEN us ELSE [right |-> [array |-> us.right]]])
      [] jv.ty = "boolean" -> [right |-> [boolean |-> jv.boolean]]
      [] jv.ty = "null"    -> [right |-> [null |-> TRUE]]
      [] jv.ty = "number"  -> [right |-> [number |-> jv.number]]
      [] jv.ty = "object"  ->
            LET ms == forIn(jv)
            IN  Let([us \in {unwrapFullyAll([i \in 1..Len(ms) |-> ms[i].v], <<>>)} |->
                    IF "thrown" \in DOMAIN us THEN us
                    ELSE [right |-> [object |-> [i \in 1..Len(ms) |->
                                                    [k |-> ms[i].k, v |-> us.right[i]]]]]])
      [] OTHER             -> [right |-> [string |-> jv.string]]

\* JSON.stringify
RECURSIVE stringify(_)
stringify(x) ==
    CASE "string" \in DOMAIN x  -> <<"\"", x.string, "\"">>
      [] "boolean" \in DOMAIN x -> <<IF x.boolean THEN "true" ELSE "false">>
      [] "number" \in DOMAIN x  -> <<ToString(x.number)>>
      [] "null" \in DOMAIN x    -> <<"null">>
      [] "array" \in DOMAIN x   ->
            <<"[">> \o join([i \in 1..Len(x.array) |-> stringify(x.array[i])], ",") \o <<"]">>
      [] OTHER ->
            <<"{">> \o join([i \in 1..Len(x.object) |->
                                <<"\"", x.object[i].k, "\"", ":">> \o stringify(x.object[i].v)], ",")
            \o <<"}">>

\* right(string), or the TypeError of unwrapFully or of calling toJsonString on
\* what is no JsonValue
toJsonString(jv) ==
    Let([u \in {unwrapFully(jv)} |->
        IF "thrown" \in DOMAIN u THEN u ELSE [right |-> stringify(u.right)]])

\* A text is [malformed |-> TRUE], or [doc |-> d] with d the document it
\* spells: as a value, except that an object lists its members as written,
\* so that a name may occur more than once.  JSON.parse keeps the last value
\* of a repeated name.
RECURSIVE JSONparse(_)
RECURSIVE JSONparseMembers(_, _)
JSONparseMembers(ms, fs) ==
    IF ms = <<>> THEN fs
    ELSE JSONparseMembers(Tail(ms), objSet(fs, Head(ms).k, JSONparse(Head(ms).v)))

JSONparse(d) ==
    CASE "array" \in DOMAIN d  -> [array |-> [i \in 1..Len(d.array) |-> JSONparse(d.array[i])]]
      [] "object" \in DOMAIN d -> [object |-> JSONparseMembers(d.object, <<>>)]
      [] OTHER                 -> d

SyntaxError == [exc |-> "SyntaxError"]

\* a variant that reads a malformed text as null
parseJSONAsNull(text) ==
    IF "malformed" \in DOMAIN text THEN [right |-> [null |-> TRUE]]
    ELSE [right |-> JSONparse(text.doc)]

parseJSON(text) ==
    IF "malformed" \in DOMAIN text THEN [left |-> SyntaxError]
    ELSE [right |-> JSONparse(text.doc)]

parse(text) ==
    LET r == parseJSON(text)
    IN  IF IsLeft(r) THEN r ELSE [right |-> toJsonValue(r.right)]

---------------------------------------------------------------------------
(* json.ts: ParseContext.  A context is the sequence of its frames, from   *)
(* the top-level one to itself.                                            *)

topLevelContext == <<[fr |-> "topLevel"]>>

readingValueForSpec(parent, schemasOf, spec, value) ==
    Append(parent, [fr |-> "ReadingValueForSpec", schemas |-> schemasOf, spec |-> spec, value |-> value])

keyEntered(parent, key) == Append(parent, [fr |-> "KeyEntered", key |-> key])

atIndex(parent, index) == Append(parent, [fr |-> "AtIndex", index |-> index])

getParentContext(c) == IF Len(c) = 1 THEN None ELSE Some(Front(c))

\* String.prototype.trim, on tokens
RECURSIVE trimStart(_)
trimStart(str) ==
    IF str # <<>> /\ Head(str) \in {"", "\n"} THEN trimStart(Tail(str)) ELSE str

RECURSIVE trimEnd(_)
trimEnd(str) ==
    IF str # <<>> /\ str[Len(str)] \in {"", "\n"} THEN trimEnd(Front(str)) ELSE str

trim(str) == trimEnd(trimStart(str))

\* right(string), or what getDescription threw
renderThis(H, frame) ==
    CASE frame.fr = "ReadingValueForSpec" ->
            Let([d \in {getDescription(H, frame.schemas, frame.spec)} |->
                IF IsThrown(d) THEN d
                ELSE Let([str \in {toJsonString(frame.value)} |->
                         IF IsThrown(str) THEN str
                         ELSE [right |-> <<"When trying to read a value for specification: ">>
                                         \o d.right \o <<"\n", "I saw: ">> \o str.right]])])
      [] frame.fr = "AtIndex"    -> [right |-> <<"At index: ", ToString(frame.index)>>]
      [] frame.fr = "KeyEntered" -> [right |-> <<"In key: ", "\"", frame.key, "\"">>]
      [] OTHER                   -> [right |-> <<"">>]

RECURSIVE renderFull(_, _)
renderFull(H, c) ==
    Let([parent \in {IF getParentContext(c) = None THEN [right |-> <<"">>]
                     ELSE renderFull(H, unwrap(getParentContext(c)))} |->
        IF IsThrown(parent) THEN parent
        ELSE Let([this \in {renderThis(H, c[Len(c)])} |->
                 IF IsThrown(this) THEN this
                 ELSE [right |-> trim(parent.right \o <<"\n">> \o this.right)]])])

\* a variant whose constructor leaves the rendering of the context for later
JsonParseErrorUnrendered(H, err, ctx, message, detail) ==
    [left |-> [err |-> err, context |-> ctx, detail |-> detail, message |-> message]]

\* new JsonParseError(context, message) for the subclass named err: left(error),
\* or what rendering the context threw
JsonParseError(H, err, ctx, message, detail) ==
    Let([r \in {renderFull(H, ctx)} |->
        IF IsThrown(r) THEN r
        ELSE [left |-> [err     |-> err,
                        context |-> ctx,
                        detail  |-> detail,
                        message |-> r.right \o <<"\n">> \o message]]])

determinerFor(str) == IF str[1] \in {"array", "object", "array of length "} THEN "an" ELSE "a"

quoted(keys) == [i \in 1..Len(keys) |-> <<"\"", keys[i], "\"">>]

---------------------------------------------------------------------------
(* json.ts: JsonParser.  A method that runs during a parse takes the       *)
(* parser's state ps = [context, trace] and returns [ps, out]: the state   *)
(* it leaves and right(value), left(error) or thrown(exception).  An       *)
(* exception leaves the method at once, so nothing after the throwing      *)
(* statement runs.  H is `schemas`; the parser's own registry is H.parser. *)

Ret(ps, out) == [ps |-> ps, out |-> out]

log(ps, event) == [ps EXCEPT !.trace = Append(@, event)]

\* what a call of one of the load methods returned, for the trace
outcomeOf(out) == IF IsRight(out) THEN "ok" ELSE out.left.err

returning(ps, op, before, out) ==
    Ret(log(ps, [ev |-> "return", op |-> op, before |-> before, after |-> ps.context,
                 outcome |-> outcomeOf(out),
                 failure |-> IF IsLeft(out) THEN Some(out.left) ELSE None]), out)

Fatal == [exc |-> "Error", message |-> <<"FATAL: tried to retrieve context when not parsing.">>]

\* a variant that takes the top level for the context of a parser that is not parsing
checkParsingOrTopLevel(ps) ==
    IF ps.context = None THEN [right |-> topLevelContext] ELSE [right |-> unwrap(ps.context)]

checkParsingOrFail(ps) ==
    IF ps.context = None THEN [thrown |-> Fatal] ELSE [right |-> unwrap(ps.context)]

tryingToLoadValueForSpec(ps, spec, value) ==
    LET c == checkParsingOrFail(ps)
    IN  IF IsThrown(c) THEN Ret(ps, c)
        ELSE Ret([ps EXCEPT !.context = Some(readingValueForSpec(c.right, "parser", spec, value))],
                 [right |-> TRUE])

contextEnterKey(ps, k) ==
    LET c == checkParsingOrFail(ps)
    IN  IF IsThrown(c) THEN Ret(ps, c)
        ELSE Ret([ps EXCEPT !.context = Some(keyEntered(c.right, k))], [right |-> TRUE])

contextAtIndex(ps, i) ==
    LET c == checkParsingOrFail(ps)
    IN  IF IsThrown(c) THEN Ret(ps, c)
        ELSE Ret([ps EXCEPT !.context = Some(atIndex(c.right, i))], [right |-> TRUE])

contextPop(ps) ==
    [ps EXCEPT !.context = IF ps.context = None THEN None
                           ELSE getParentContext(unwrap(ps.context))]

\* a variant that reports the first missing key only
failWithFirstMissingKey(H, ps, missingKeys) ==
    LET c == checkParsingOrFail(ps)
    IN  IF IsThrown(c) THEN c
        ELSE JsonParseError(H, "MissingKeysError", c.right,
                 <<"But the following keys are required and were not specified: ">>
                     \o join(quoted(<<missingKeys[1]>>), ", "),
                 [keys |-> <<missingKeys[1]>>])

failWithMissingKeys(H, ps, missingKeys) ==
    LET c == checkParsingOrFail(ps)
    IN  IF IsThrown(c) THEN c
        ELSE JsonParseError(H, "MissingKeysError", c.right,
                 <<"But the following keys are required and were not specified: ">>
                     \o join(quoted(missingKeys), ", "),
                 [keys |-> missingKeys])

failWithTypeError(H, ps, tyDesc) ==
    LET c == checkParsingOrFail(ps)
    IN  IF IsThrown(c) THEN c
        ELSE JsonParseError(H, "JsonTypeError", c.right,
                 <<"But this is ", determinerFor(tyDesc), " ">> \o tyDesc,
                 [actualTyDesc |-> tyDesc])

\* a variant that reports the first unknown key only
failWithFirstUnknownKey(H, ps, unknownKeys) ==
    LET c == checkParsingOrFail(ps)
    IN  IF IsThrown(c) THEN c
        ELSE JsonParseError(H, "UnknownKeysError", c.right,
                 <<"But I saw the following keys which are not accepted by the specification: ">>
                     \o join(quoted(<<unknownKeys[1]>>), ", "),
                 [keys |-> <<unknownKeys[1]>>])

failWithUnknownKeys(H, ps, unknownKeys) ==
    LET c == checkParsingOrFail(ps)
    IN  IF IsThrown(c) THEN c
        ELSE JsonParseError(H, "UnknownKeysError", c.right,
                 <<"But I saw the following keys which are not accepted by the specification: ">>
                     \o join(quoted(unknownKeys), ", "),
                 [keys |-> unknownKeys])

\* a variant that reports the unknown specification against the top level
failWithUnknownSpecAtTopLevel(H, ps, spec) ==
    LET c == checkParsingOrFail(ps)
    IN  IF IsThrown(c) THEN c
        ELSE JsonParseError(H, "UnknownSpecError", topLevelContext,
                 <<"But I don't know how to parse a value for the specification: ">>
                     \o tySpecDescription(spec),
                 [spec |-> spec])

failWithUnknownSpec(H, ps, spec) ==
    LET c == checkParsingOrFail(ps)
    IN  IF IsThrown(c) THEN c
        ELSE JsonParseError(H, "UnknownSpecError", c.right,
                 <<"But I don't know how to parse a value for the specification: ">>
                     \o tySpecDescription(spec),
                 [spec |-> spec])

\* Set.prototype.add / delete on a Set kept as the sequence of its members
setAdd(xs, x) == IF x \in Range(xs) THEN xs ELSE Append(xs, x)

setDelete(xs, x) == SelectSeqNot(xs, x)

isPrimitive(v) == DOMAIN v \cap {"boolean", "number", "string", "null"} # {}

\* new Set(r): equal primitives collapse, objects are members by identity
RECURSIVE newSet(_, _)
newSet(r, acc) ==
    IF r = <<>> THEN acc
    ELSE newSet(Tail(r), IF isPrimitive(Head(r)) THEN setAdd(acc, Head(r)) ELSE Append(acc, Head(r)))

\* the raw argument an atom of RawArgs stands for
rawValue(a) == IF a = "7" THEN [number |-> 7] ELSE [string |-> "v1"]

\* the onRes / finish callbacks: right(result), or the exception of one that throws
callOnRes(onRes, x) ==
    CASE onRes = "id"          -> [right |-> x]
      [] onRes = "Set"         -> [right |-> [set |-> newSet(x.array, <<>>)]]
      [] onRes = "mapToObject" -> [right |-> [object |-> x.map]]
      [] onRes = "throws"      -> [thrown |-> [exc |-> "Error", message |-> <<"finish failed">>]]
      [] OTHER                 -> [right |-> [new |-> onRes, arg |-> x]]

handlerKey(ty) ==
    CASE ty = "array"   -> "onArray"
      [] ty = "boolean" -> "onBoolean"
      [] ty = "null"    -> "onNull"
      [] ty = "number"  -> "onNumber"
      [] ty = "object"  -> "onObject"
      [] OTHER          -> "onString"

RECURSIVE loadAs(_, _, _, _)
RECURSIVE loadKeyAs(_, _, _, _, _)
RECURSIVE loadIndexAs(_, _, _, _, _)
RECURSIVE on(_, _, _, _)
RECURSIVE orSpec(_, _, _, _)
RECURSIVE callLoaderFn(_, _, _, _)
RECURSIVE genArraySchemaLoop(_, _, _, _, _, _)
RECURSIVE genObjectMapSchemaLoop(_, _, _, _, _, _)
RECURSIVE objectSchemaLoop(_, _, _, _, _, _, _, _, _)
RECURSIVE anyOfLoop(_, _, _, _, _)
RECURSIVE tupleLoop(_, _, _, _, _, _)
RECURSIVE parseAs(_, _, _, _)
RECURSIVE parseAsOrThrow(_, _, _, _)

\* a variant that returns x without calling onRes
parseOkWithoutOnRes(ps, onRes, x) == Ret(ps, [right |-> x])

\* JsonParser.parseOk(onRes(x))
parseOk(ps, onRes, x) == Ret(ps, callOnRes(onRes, x))

loadKeyAs(H, ps, k, jv, spec) ==
    LET ps0 == log(ps, [ev |-> "call", op |-> "loadKeyAs", key |-> k, before |-> ps.context])
    IN  Let([e \in {contextEnterKey(ps0, k)} |->
            IF IsThrown(e.out) THEN e
            ELSE Let([res \in {loadAs(H, e.ps, jv, spec)} |->
                     IF IsThrown(res.out) THEN res
                     ELSE returning(contextPop(res.ps), "loadKeyAs", ps.context, res.out)])])

loadIndexAs(H, ps, i, jv, spec) ==
    LET ps0 == log(ps, [ev |-> "call", op |-> "loadIndexAs", index |-> i, before |-> ps.context])
    IN  Let([e \in {contextAtIndex(ps0, i)} |->
            IF IsThrown(e.out) THEN e
            ELSE Let([res \in {loadAs(H, e.ps, jv, spec)} |->
                     IF IsThrown(res.out) THEN res
                     ELSE returning(contextPop(res.ps), "loadIndexAs", ps.context, res.out)])])

loadAs(H, ps, jv, cls) ==
    LET ps0 == log(ps, [ev |-> "call", op |-> "loadAs", spec |-> cls, value |-> jv,
                        before |-> ps.context])
    IN  Let([e \in {tryingToLoadValueForSpec(ps0, cls, jv)} |->
            IF IsThrown(e.out) THEN e
            ELSE Let([maybeSchema \in {getSchemaForSpec(H.parser, cls)} |->
                     IF IsThrown(maybeSchema) THEN Ret(e.ps, maybeSchema)
                     ELSE IF isSome(maybeSchema.right)
                          THEN Let([res \in {on(H, e.ps, unwrap(maybeSchema.right), jv)} |->
                                   IF IsThrown(res.out) THEN res
                                   ELSE returning(contextPop(res.ps), "loadAs", ps.context, res.out)])
                          ELSE Let([f \in {failWithUnknownSpec(H, e.ps, cls)} |->
                                   IF IsThrown(f) THEN Ret(e.ps, f)
                                   ELSE returning(e.ps, "loadAs", ps.context, f)])])])

on(H, ps, schema, o) ==
    IF "notNode" \in DOMAIN o THEN Ret(ps, [thrown |-> NotAFunction])   \* o.isArray()
    ELSE orSpec(H, ps, schema[handlerKey(o.ty)], o)

orSpec(H, ps, s, o) ==
    IF "h" \in DOMAIN s THEN callLoaderFn(H, ps, s, o) ELSE loadAs(H, ps, o, s)

\* the loader functions: those of JsonSchema, and those made by the built-in builders
callLoaderFn(H, ps, s, o) ==
    CASE s.h = "failWithTypeError"  -> Ret(ps, failWithTypeError(H, ps, <<o.ty>>))
      [] s.h = "genArraySchema"     -> genArraySchemaLoop(H, ps, s, o.array, 0, <<>>)
      [] s.h = "genBooleanSchema"   -> parseOk(ps, s.onRes, [boolean |-> o.boolean])
      [] s.h = "genNullSchema"      -> parseOk(ps, s.onRes, [null |-> TRUE])
      [] s.h = "genNumberSchema"    -> parseOk(ps, s.onRes, [number |-> o.number])
      [] s.h = "genStringSchema"    -> parseOk(ps, s.onRes, [string |-> o.string])
      [] s.h = "genObjectMapSchema" -> genObjectMapSchemaLoop(H, ps, s, forIn(o), 1, <<>>)
      [] s.h = "objectSchema"       ->
            objectSchemaLoop(H, ps, s, forIn(o), 1, 0, <<>>,
                             [i \in 1..Len(s.ks) |-> s.ks[i].k], <<>>)
      [] s.h = "anyOf"              -> anyOfLoop(H, ps, s.tys, o, 1)
      [] s.h = "unwrapFully"        -> Ret(ps, unwrapFully(o))
      [] s.h = "Enum"               ->
            Let([v \in {unwrapFully(o)} |->
                IF IsThrown(v) THEN Ret(ps, v)
                ELSE IF \E i \in 1..Len(s.args) :
                           /\ ~isArray(s.args[i])
                           /\ s.args[i].atom \in RawArgs
                           /\ rawValue(s.args[i].atom) = v.right
                     THEN Ret(ps, v)
                     ELSE Ret(ps, failWithTypeError(H, ps, <<"different value">>))])
      [] s.h = "parseAgain"         ->
            \* (parser, json) => p.parseAs('true', cls), or parseOk(p.parseAsOrThrow('true', cls)),
            \* where p is the parser itself or another parser with the same registry
            Let([inner \in {IF s.orThrow
                            THEN parseAsOrThrow(H, IF s.same THEN ps ELSE [context |-> None, trace |-> <<>>],
                                                [doc |-> [boolean |-> TRUE]], s.cls)
                            ELSE parseAs(H, IF s.same THEN ps ELSE [context |-> None, trace |-> <<>>],
                                         [doc |-> [boolean |-> TRUE]], s.cls)} |->
                Ret(log(IF s.same THEN inner.ps ELSE ps,
                        [ev |-> "inner", same |-> s.same, before |-> ps.context,
                         after |-> IF s.same THEN inner.ps.context ELSE ps.context]),
                    IF "value" \in DOMAIN inner.out THEN [right |-> inner.out.value] ELSE inner.out)])
      [] OTHER -> \* tuple
            IF Len(o.array) # Len(s.tys)
            THEN Ret(ps, failWithTypeError(H, ps, <<"array of length ", ToString(Len(o.array))>>))
            ELSE tupleLoop(H, ps, s, o.array, 0, <<>>)

\* a variant of genArraySchema's loop that leaves a failing element out and goes on
genArraySchemaLoopGoingOn(H, ps, s, arr, i, res) ==
    IF ~(i < Len(arr)) THEN parseOk(ps, s.onRes, [array |-> res])
    ELSE Let([v \in {loadIndexAs(H, ps, i, arr[i + 1], s.eltSpec)} |->
             IF IsThrown(v.out) THEN v
             ELSE genArraySchemaLoop(H, v.ps, s, arr, i + 1,
                                     IF IsLeft(v.out) THEN res ELSE Append(res, v.out.right))])

\* for (let i = 0; i < arr.length; i++) of genArraySchema
genArraySchemaLoop(H, ps, s, arr, i, res) ==
    IF ~(i < Len(arr)) THEN parseOk(ps, s.onRes, [array |-> res])
    ELSE Let([v \in {loadIndexAs(H, ps, i, arr[i + 1], s.eltSpec)} |->
             IF IsThrown(v.out) \/ IsLeft(v.out) THEN v
             ELSE genArraySchemaLoop(H, v.ps, s, arr, i + 1, Append(res, v.out.right))])

\* for (const k in obj) of genObjectMapSchema; j is the position of k in obj
genObjectMapSchemaLoop(H, ps, s, obj, j, res) ==
    IF j > Len(obj) THEN parseOk(ps, s.onRes, [map |-> res])
    ELSE Let([v \in {loadKeyAs(H, ps, obj[j].k, obj[j].v, s.kfun)} |->
             IF IsThrown(v.out) \/ IsLeft(v.out) THEN v
             ELSE genObjectMapSchemaLoop(H, v.ps, s, obj, j + 1,
                                         objSet(res, obj[j].k, v.out.right))])

\* a variant of objectSchema's loops that goes on to the next key when a field's
\* nested load fails
objectSchemaLoopGoingOn(H, ps, s, obj, j, i, unreadKeys, missedKeys, res) ==
    IF j > Len(obj)
    THEN IF Len(unreadKeys) > 0 THEN Ret(ps, failWithUnknownKeys(H, ps, unreadKeys))
         ELSE IF Len(missedKeys) > 0 THEN Ret(ps, failWithMissingKeys(H, ps, missedKeys))
         ELSE parseOk(ps, s.onRes, [object |-> res])
    ELSE IF i = 0
    THEN objectSchemaLoop(H, ps, s, obj, j, 1, setAdd(unreadKeys, obj[j].k), missedKeys, res)
    ELSE IF i > Len(s.ks)
    THEN objectSchemaLoop(H, ps, s, obj, j + 1, 0, unreadKeys, missedKeys, res)
    ELSE IF s.ks[i].k = obj[j].k
    THEN LET unread == setDelete(unreadKeys, obj[j].k)
             missed == setDelete(missedKeys, s.ks[i].k)
         IN  Let([v \in {loadKeyAs(H, ps, obj[j].k, obj[j].v, s.ks[i].v)} |->
                 IF IsThrown(v.out) THEN v
                 ELSE objectSchemaLoop(H, v.ps, s, obj, j, i + 1, unread, missed,
                                       IF IsLeft(v.out) THEN res
                                       ELSE objSet(res, obj[j].k, v.out.right))])
    ELSE objectSchemaLoop(H, ps, s, obj, j, i + 1, unreadKeys, missedKeys, res)

\* the two nested loops of objectSchema: j is the position of k in obj, i that of
\* ksk in ks, i = 0 before the inner loop starts
objectSchemaLoop(H, ps, s, obj, j, i, unreadKeys, missedKeys, res) ==
    IF j > Len(obj)
    THEN IF Len(unreadKeys) > 0 THEN Ret(ps, failWithUnknownKeys(H, ps, unreadKeys))
         ELSE IF Len(missedKeys) > 0 THEN Ret(ps, failWithMissingKeys(H, ps, missedKeys))
         ELSE parseOk(ps, s.onRes, [object |-> res])
    ELSE IF i = 0
    THEN objectSchemaLoop(H, ps, s, obj, j, 1, setAdd(unreadKeys, obj[j].k), missedKeys, res)
    ELSE IF i > Len(s.ks)
    THEN objectSchemaLoop(H, ps, s, obj, j + 1, 0, unreadKeys, missedKeys, res)
    ELSE IF s.ks[i].k = obj[j].k
    THEN LET unread == setDelete(unreadKeys, obj[j].k)
             missed == setDelete(missedKeys, s.ks[i].k)
         IN  Let([v \in {loadKeyAs(H, ps, obj[j].k, obj[j].v, s.ks[i].v)} |->
                 IF IsThrown(v.out) \/ IsLeft(v.out) THEN v
                 ELSE objectSchemaLoop(H, v.ps, s, obj, j, i + 1, unread, missed,
                                       objSet(res, obj[j].k, v.out.right))])
    ELSE objectSchemaLoop(H, ps, s, obj, j, i + 1, unreadKeys, missedKeys, res)

\* for (const ty of tys) of anyOf
anyOfLoop(H, ps, tys, json, i) ==
    IF i > Len(tys) THEN Ret(ps, failWithTypeError(H, ps, <<json.ty>>))
    ELSE Let([res \in {loadAs(H, ps, json, tys[i])} |->
             IF IsThrown(res.out) \/ IsRight(res.out) THEN res
             ELSE anyOfLoop(H, res.ps, tys, json, i + 1)])

\* for (let i = 0; i < arr.length; i++) of tuple
\* a variant of tuple's loop that loads each element under its index, as arrays do
tupleLoopAtIndex(H, ps, s, arr, i, res) ==
    IF ~(i < Len(arr)) THEN Ret(ps, [right |-> [array |-> res]])
    ELSE Let([loaded \in {loadIndexAs(H, ps, i, arr[i + 1], s.tys[i + 1])} |->
             IF IsThrown(loaded.out) \/ IsLeft(loaded.out) THEN loaded
             ELSE tupleLoop(H, loaded.ps, s, arr, i + 1, Append(res, loaded.out.right))])

tupleLoop(H, ps, s, arr, i, res) ==
    IF ~(i < Len(arr)) THEN Ret(ps, [right |-> [array |-> res]])
    ELSE Let([loaded \in {loadAs(H, ps, arr[i + 1], s.tys[i + 1])} |->
             IF IsThrown(loaded.out) \/ IsLeft(loaded.out) THEN loaded
             ELSE tupleLoop(H, loaded.ps, s, arr, i + 1, Append(res, loaded.out.right))])

initialiseForParsing(ps) == [ps EXCEPT !.context = Some(topLevelContext)]

\* a variant that leaves the context as it is
cleanupLeavingContext(ps) == ps

cleanupAfterParsing(ps) == [ps EXCEPT !.context = None]

\* parse(text).mapCollecting(v => this.loadAs(v, cls)), the context on entry logged
parseThenLoad(H, ps, text, cls) ==
    LET ps0 == log(ps, [ev |-> "enter", context |-> ps.context])
    IN  Let([v \in {parse(text)} |->
            IF IsLeft(v) THEN Ret(ps0, v) ELSE loadAs(H, ps0, v.right, cls)])

\* Either.orThrow
orThrow(r) ==
    IF IsThrown(r.out) THEN r
    ELSE IF IsLeft(r.out) THEN Ret(r.ps, [thrown |-> r.out.left])
    ELSE Ret(r.ps, [value |-> r.out.right])

\* calling the arrow function f = [text, cls, orThrow] the parse methods pass to
\* withSetupCleanUp: what it captured, and whether it ends with .orThrow()
callArrow(H, ps, f) ==
    Let([r \in {parseThenLoad(H, ps, f.text, f.cls)} |->
        IF f.orThrow THEN orThrow(r) ELSE r])

\* try { res = f() } catch (e) { throw e } finally { cleanup }: f is run on the
\* initialised parser, and the cleanup runs however f ended
\* a variant that puts back the context the parser had on entry
withSetupCleanUpRestoring(H, ps, f) ==
    Let([res \in {callArrow(H, initialiseForParsing(ps), f)} |->
        Ret([res.ps EXCEPT !.context = ps.context], res.out)])

\* a variant that sets up only a parser without context and does not clean up
withSetupCleanUpOnce(H, ps, f) ==
    callArrow(H, IF ps.context = None THEN initialiseForParsing(ps) ELSE ps, f)

withSetupCleanUp(H, ps, f) ==
    Let([res \in {callArrow(H, initialiseForParsing(ps), f)} |->
        Ret(cleanupAfterParsing(res.ps), res.out)])

\* a variant of parseAs that ends with .orThrow(), as parseAsOrThrow does
parseAsThrowingFailures(H, ps, text, cls) ==
    withSetupCleanUp(H, ps, [text |-> text, cls |-> cls, orThrow |-> TRUE])

parseAs(H, ps, text, cls) ==
    withSetupCleanUp(H, ps, [text |-> text, cls |-> cls, orThrow |-> FALSE])

parseAsOrThrow(H, ps, text, cls) ==
    withSetupCleanUp(H, ps, [text |-> text, cls |-> cls, orThrow |-> TRUE])

\* new JsonParser(schemas, noDefault): the parser's registry
newJsonParserSchemas(userSchemas, noDefault) ==
    mergeSchemas(<<IF noDefault THEN emptySchemas ELSE defaultSchema, userSchemas>>)

---------------------------------------------------------------------------
(* Bounds and inputs. *)

\* members of an object text
MaxKeys == 3

\* elements of an array text
MaxLen == 2

\* addSpec calls on the user registry
MaxAdds == 3

\* parameters of a registered function before its first default or rest parameter
MaxParams == 2

\* trailing arguments of a looked-up specification
MaxGiven == 3

\* earlier calls on a parser instance
MaxCalls == 2

\* elements of a group of a nested list
MaxGroup == 3

\* the fields of tests' Empty: { p1: Boolean, p2: Number, p3: null }
EmptyFields ==
    << [k |-> "p1", v |-> Atom("Boolean")],
       [k |-> "p2", v |-> Atom("Number")],
       [k |-> "p3", v |-> Atom("null")] >>

emptyRegistration ==
    Registration(FALSE, Atom("Empty"), Opts(None, None, Schema(objectSchema(EmptyFields, "Empty"))))

\* a finish callback that throws
throwerRegistration ==
    Registration(FALSE, Atom("Thrower"), Opts(None, None, Schema(booleanSchema("throws"))))

\* a description function of one mandatory parameter beside a ready-made schema
describedRegistration ==
    Registration(FALSE, Atom("Described"),
                 Opts(Descr(Fn("described", 1, FALSE)), None, Schema(nullSchema("id"))))

\* a schema whose handler, for every kind, parses the text 'true' against cls
\* with parseAs or parseAsOrThrow of the parser that is loading (same) or of
\* another parser
parsingAgain(name, same, throwing, cls) ==
    Registration(FALSE, Atom(name),
                 Opts(None, None,
                      Schema(customSchema(allSchemasSame(
                          [h |-> "parseAgain", same |-> same, orThrow |-> throwing, cls |-> cls])))))

reentrantRegistrations ==
    << parsingAgain("Reentrant", TRUE, FALSE, Atom("Boolean")),
       parsingAgain("ReentrantOrThrow", TRUE, TRUE, Atom("Boolean")),
       parsingAgain("ReentrantFailing", TRUE, FALSE, Atom("Number")),
       parsingAgain("Delegating", FALSE, FALSE, Atom("Boolean")) >>

\* errSchema of the tests
errRegistrations ==
    << Registration(FALSE, Atom("wants2Args"),
                    Opts(Descr(Fn("wants2Args", 2, FALSE)), None, Loader(Fn("wants2Args", 2, FALSE)))),
       Registration(FALSE, Atom("justAString"), Opts(Text("Just a string"), None, None)),
       Registration(FALSE, Atom("wantsNoArgs"),
                    Opts(Descr(Fn("wantsNoArgs", 0, FALSE)), None, Loader(Fn("wantsNoArgs", 0, FALSE)))),
       Registration(FALSE, Atom("wants2To3Args"),
                    Opts(Descr(Fn("wants2To3Args", 2, FALSE)), Some(3),
                         Loader(Fn("wants2To3Args", 2, FALSE)))) >>

\* the parsers: [user |-> the addSpec calls made on the caller's registry, noDefault]
ParserSetups ==
    { [user |-> <<>>, noDefault |-> FALSE],
      [user |-> <<emptyRegistration, throwerRegistration, describedRegistration>>, noDefault |-> FALSE],
      [user |-> <<emptyRegistration, throwerRegistration, describedRegistration>>, noDefault |-> TRUE],
      [user |-> errRegistrations, noDefault |-> FALSE],
      [user |-> reentrantRegistrations, noDefault |-> FALSE] }

\* members of object texts: a value that suits the field, and one that does not
Members ==
    { [k |-> "p1", v |-> [boolean |-> TRUE]], [k |-> "p1", v |-> [number |-> 1]],
      [k |-> "p2", v |-> [number |-> 1]],     [k |-> "p2", v |-> [boolean |-> TRUE]],
      [k |-> "p3", v |-> [null |-> TRUE]],    [k |-> "p3", v |-> [boolean |-> TRUE]],
      [k |-> "q1", v |-> [boolean |-> TRUE]], [k |-> "q2", v |-> [number |-> 1]] }

distinctKeys(ms) == \A i, j \in 1..Len(ms) : ms[i].k = ms[j].k => i = j

ObjectTexts ==
    { [doc |-> [object |-> ms]] :
        ms \in {m \in UNION {[1..n -> Members] : n \in 0..MaxKeys} : distinctKeys(m)} }

Scalars ==
    { [boolean |-> TRUE], [boolean |-> FALSE], [number |-> 1], [number |-> 0],
      [string |-> "v1"], [string |-> ""], [null |-> TRUE] }

ArrayTexts ==
    { [doc |-> [array |-> xs]] :
        xs \in UNION {[1..n -> {[boolean |-> TRUE], [number |-> 1]}] : n \in 0..MaxLen} }

GeneralTexts ==
    {[doc |-> d] : d \in Scalars} \cup ArrayTexts \cup
    { [malformed |-> TRUE],
      [doc |-> [array |-> <<[array |-> <<[boolean |-> TRUE]>>]>>]],
      [doc |-> [object |-> <<>>]],
      [doc |-> [object |-> <<[k |-> "a", v |-> [boolean |-> TRUE]]>>]],
      [doc |-> [object |-> <<[k |-> "a", v |-> [boolean |-> TRUE]], [k |-> "b", v |-> [number |-> 1]],
                             [k |-> "a", v |-> [number |-> 1]]>>]],
      [doc |-> [array |-> <<[object |-> <<[k |-> "p2", v |-> [number |-> 1]]>>]>>]],
      [doc |-> [object |-> <<[k |-> ProtoKey, v |-> [number |-> 1]]>>]],
      [doc |-> [object |-> <<[k |-> "value", v |-> [number |-> 1]], [k |-> ProtoKey, v |-> [null |-> TRUE]],
                             [k |-> "ty", v |-> [boolean |-> TRUE]]>>]] }

GeneralSpecs ==
    { Atom("Boolean"), Atom("Number"), Atom("null"), Atom("String"), AnyTy, Atom("Array"),
      Atom("Empty"), Atom("Thrower"), Atom("Described"), Atom("Set"),
      List(<<Atom("Array"), Atom("Boolean")>>),
      List(<<Atom("Array"), Atom("Boolean"), Atom("Number")>>),
      List(<<Atom("Array"), List(<<Atom("Array"), Atom("Boolean")>>)>>),
      List(<<Atom("Array"), Atom("Empty")>>),
      List(<<Atom("Array"), Atom("\"v1\"")>>),
      List(<<Atom("Array"), Atom("Thrower")>>),
      List(<<Atom("Array"), List(<<Atom("anyOf"), Atom("Unknown"), Atom("Boolean")>>)>>),
      List(<<Atom("Map"), Atom("Boolean")>>),
      List(<<Atom("Object"), Atom("Number")>>),
      List(<<Atom("Set"), Atom("Boolean")>>),
      List(<<Atom("anyOf")>>),
      List(<<Atom("anyOf"), Atom("Boolean"), Atom("Number")>>),
      List(<<Atom("anyOf"), Atom("Unknown"), Atom("Boolean")>>),
      List(<<Atom("anyOf"), Atom("Unknown"), Atom("Described")>>),
      List(<<Atom("tuple"), Atom("Boolean"), Atom("Number")>>),
      List(<<Atom("tuple"), Atom("Unknown"), Atom("Number")>>),
      List(<<Atom("Enum"), Atom("\"v1\""), Atom("7")>>),
      Atom("wants2Args"),
      List(<<Atom("wants2Args"), Atom("Number"), Atom("Boolean")>>),
      List(<<Atom("wants2To3Args"), Atom("Number")>>),
      List(<<Atom("justAString"), Atom("Number")>>),
      Atom("Reentrant"), Atom("ReentrantOrThrow"), Atom("ReentrantFailing"), Atom("Delegating") }

\* calls of the parser's public methods
MethodCalls ==
    { [op |-> "failWithTypeError", tyDesc |-> <<"boolean">>],
      [op |-> "failWithMissingKeys", keys |-> <<"p1", "p3">>],
      [op |-> "failWithUnknownKeys", keys |-> <<"q1">>],
      [op |-> "failWithUnknownSpec", spec |-> Atom("Unknown")] }
    \cup { [op |-> "loadAs", jv |-> toJsonValue(x), spec |-> c] :
             x \in {[boolean |-> TRUE], [array |-> <<[number |-> 1]>>]},
             c \in {Atom("Boolean"), Atom("Unknown"), List(<<Atom("Array"), Atom("Number")>>)} }
    \cup { [op |-> "loadKeyAs", key |-> "p1", jv |-> toJsonValue([boolean |-> TRUE]), spec |-> c] :
             c \in {Atom("Boolean"), Atom("Unknown")} }
    \cup { [op |-> "loadIndexAs", index |-> i, jv |-> toJsonValue([number |-> 1]), spec |-> c] :
             i \in {0, 1}, c \in {Atom("Number"), Atom("Unknown")} }

ParseInputs ==
    {[text |-> t, spec |-> Atom("Empty")] : t \in ObjectTexts}
    \cup {[text |-> t, spec |-> c] : t \in GeneralTexts, c \in GeneralSpecs}

---------------------------------------------------------------------------
(* The parser: construction, the two parse methods, and the caller taking  *)
(* the result.                                                             *)

Init ==
    /\ \E setup \in ParserSetups :
          \E u \in {registerAll(emptySchemas, "user", setup.user)} :
              /\ schemas = [default |-> defaultSchema, user |-> u,
                            parser |-> newJsonParserSchemas(u, setup.noDefault)]
              /\ registered = setup.user
    /\ context = None
    /\ phase = "idle"
    /\ call = None
    /\ result = None
    /\ trace = <<>>

ParseAs(text, cls) ==
    /\ phase = "idle"
    /\ \E r \in {parseAs(schemas, [context |-> context, trace |-> <<>>], text, cls)} :
           /\ context' = r.ps.context
           /\ trace' = r.ps.trace
           /\ result' = Some(r.out)
    /\ call' = Some([op |-> "parseAs", text |-> text, spec |-> cls])
    /\ phase' = "done"
    /\ UNCHANGED <<schemas, registered>>

ParseAsOrThrow(text, cls) ==
    /\ phase = "idle"
    /\ \E r \in {parseAsOrThrow(schemas, [context |-> context, trace |-> <<>>], text, cls)} :
           /\ context' = r.ps.context
           /\ trace' = r.ps.trace
           /\ result' = Some(r.out)
    /\ call' = Some([op |-> "parseAsOrThrow", text |-> text, spec |-> cls])
    /\ phase' = "done"
    /\ UNCHANGED <<schemas, registered>>

\* a public method of the parser called from outside parseAs / parseAsOrThrow
callMethod(H, ps, m) ==
    CASE m.op = "failWithTypeError"   -> Ret(ps, failWithTypeError(H, ps, m.tyDesc))
      [] m.op = "failWithMissingKeys" -> Ret(ps, failWithMissingKeys(H, ps, m.keys))
      [] m.op = "failWithUnknownKeys" -> Ret(ps, failWithUnknownKeys(H, ps, m.keys))
      [] m.op = "failWithUnknownSpec" -> Ret(ps, failWithUnknownSpec(H, ps, m.spec))
      [] m.op = "loadKeyAs"           -> loadKeyAs(H, ps, m.key, m.jv, m.spec)
      [] m.op = "loadIndexAs"         -> loadIndexAs(H, ps, m.index, m.jv, m.spec)
      [] OTHER                        -> loadAs(H, ps, m.jv, m.spec)

CallMethod(m) ==
    /\ phase = "idle"
    /\ \E r \in {callMethod(schemas, [context |-> context, trace |-> <<>>], m)} :
           /\ context' = r.ps.context
           /\ trace' = r.ps.trace
           /\ result' = Some(r.out)
    /\ call' = Some(m)
    /\ phase' = "called"
    /\ UNCHANGED <<schemas, registered>>

\* the caller has the result (or has caught the exception)
TakeResult ==
    /\ phase \in {"done", "called"}
    /\ phase' = "idle"
    /\ call' = None
    /\ result' = None
    /\ trace' = <<>>
    /\ UNCHANGED <<schemas, context, registered>>

Next ==
    \/ \E in \in ParseInputs : ParseAs(in.text, in.spec)
    \/ \E in \in ParseInputs : ParseAsOrThrow(in.text, in.spec)
    \/ \E m \in MethodCalls : CallMethod(m)
    \/ TakeResult

Spec == Init /\ [][Next]_vars

---------------------------------------------------------------------------
(* A Schemas object under construction: addSpec calls on the caller's      *)
(* registry, and lookups on it.  `registered` lists the calls made.        *)

\* a loader with a rest parameter, which keeps the arguments it is given
keepingLoader == Loader(Fn("tuple", 0, TRUE))

tagged(key, tag) == Registration(FALSE, key, Opts(None, None, Schema(booleanSchema(tag))))

TrieRegistrations ==
    { Registration(FALSE, Atom("Array"),
                   Opts(Descr(Fn("Array", 0, FALSE)), Some(1), Loader(Fn("Array", 0, FALSE)))),
      Registration(FALSE, Atom("Array"), Opts(None, None, keepingLoader)),
      tagged(Atom("Array"), "Array"),
      Registration(FALSE, List(<<Atom("Array"), Atom("Map")>>), Opts(None, None, keepingLoader)),
      tagged(List(<<Atom("Array"), Atom("Map"), Atom("String")>>), "Array Map String"),
      tagged(List(<<Atom("Array"), List(<<Atom("Boolean")>>)>>), "Array Boolean"),
      Registration(FALSE, Atom("Map"), Opts(Text("a map"), None, keepingLoader)),
      tagged(List(<<Atom("Map"), Atom("String")>>), "Map String") }

LookupSpecs ==
    { Atom("Array"), Atom("Map"), Atom("Boolean"),
      List(<<Atom("Array")>>),
      List(<<Atom("Array"), Atom("Boolean")>>),
      List(<<Atom("Array"), Atom("Number")>>),
      List(<<Atom("Array"), Atom("Map")>>),
      List(<<Atom("Array"), Atom("Map"), Atom("String")>>),
      List(<<Atom("Array"), List(<<Atom("Map"), Atom("String")>>)>>),
      List(<<Atom("Array"), List(<<Atom("Map"), Atom("String")>>), Atom("Boolean")>>),
      List(<<Atom("Array"), List(<<Atom("Array"), Atom("Boolean")>>)>>),
      List(<<Atom("Array"), Atom("Boolean"), Atom("Number")>>),
      List(<<Atom("Map"), Atom("String")>>),
      List(<<Atom("Map"), Atom("Number")>>),
      List(<<Atom("Map"), List(<<Atom("Array"), Atom("Boolean")>>), Atom("Number")>>) }

InitSchemas ==
    /\ schemas = [default |-> defaultSchema, user |-> emptySchemas, parser |-> defaultSchema]
    /\ registered = <<>>
    /\ context = None
    /\ phase = "idle"
    /\ call = None
    /\ result = None
    /\ trace = <<>>

\* an addSpec on a registry whose map the parser holds itself
AddSpecShared(r) ==
    /\ phase = "idle"
    /\ Len(registered) < MaxAdds
    /\ schemas' = [schemas EXCEPT !.user = register(@, "user", r),
                                  !.parser = register(@, "user", r)]
    /\ registered' = Append(registered, r)
    /\ UNCHANGED <<context, phase, call, result, trace>>

AddSpec(r) ==
    /\ phase = "idle"
    /\ Len(registered) < MaxAdds
    /\ schemas' = [schemas EXCEPT !.user = register(@, "user", r)]
    /\ registered' = Append(registered, r)
    /\ UNCHANGED <<context, phase, call, result, trace>>

\* schemas.getSchemaForSpec(spec); the trace keeps what mostSpecificSchema found
GetSchemaForSpec(spec) ==
    /\ phase = "idle"
    /\ result' = Some(getSchemaForSpec(schemas.user, spec))
    /\ trace' = <<[ev |-> "mostSpecificSchema", found |-> mostSpecificSchema(schemas.user, spec)]>>
    /\ call' = Some([op |-> "getSchemaForSpec", spec |-> spec])
    /\ phase' = "done"
    /\ UNCHANGED <<schemas, context, registered>>

\* schemas.getDescription(spec)
GetDescription(spec) ==
    /\ phase = "idle"
    /\ result' = Some(getDescription(schemas, "user", spec))
    /\ trace' = <<[ev |-> "mostSpecificDescription",
                   found |-> mostSpecificDescription(schemas.user, spec)]>>
    /\ call' = Some([op |-> "getDescription", spec |-> spec])
    /\ phase' = "done"
    /\ UNCHANGED <<schemas, context, registered>>

NextSchemas ==
    \/ \E r \in TrieRegistrations : AddSpec(r)
    \/ \E spec \in LookupSpecs : GetSchemaForSpec(spec)
    \/ \E spec \in LookupSpecs : GetDescription(spec)
    \/ TakeResult

SpecSchemas == InitSchemas /\ [][NextSchemas]_vars

---------------------------------------------------------------------------
(* One registration of a loader or a description function of each arity,   *)
(* looked up with each number of trailing arguments.                       *)

ArityKey == Atom("wantsAtLeast1")

ArityFns == {Fn("builder", length, rest) : length \in 0..MaxParams, rest \in BOOLEAN}

ArityMaxArgs == {None} \cup {Some(n) : n \in 0..(MaxParams + 1)}

ArityRegistrations ==
    {Registration(FALSE, ArityKey, Opts(None, maxArgs, Loader(f))) :
        f \in ArityFns, maxArgs \in ArityMaxArgs}
    \cup {Registration(FALSE, ArityKey, Opts(Descr(f), maxArgs, None)) :
        f \in ArityFns, maxArgs \in ArityMaxArgs}
    \cup {Registration(FALSE, ArityKey, Opts(Descr(f), maxArgs, Loader(f))) :
        f \in ArityFns, maxArgs \in ArityMaxArgs}
    \cup {Registration(FALSE, ArityKey, Opts(Text("Just a string"), maxArgs, Schema(nullSchema("id")))) :
        maxArgs \in ArityMaxArgs}

ArityArgs == {Atom("Boolean"), List(<<Atom("Map"), Atom("String")>>)}

ArityLookups ==
    {ArityKey} \cup
    {List(<<ArityKey>> \o args) : args \in UNION {[1..n -> ArityArgs] : n \in 0..MaxGiven}}

InitArity ==
    /\ \E r \in ArityRegistrations :
          /\ schemas = [default |-> defaultSchema,
                        user    |-> register(emptySchemas, "user", r),
                        parser  |-> defaultSchema]
          /\ registered = <<r>>
    /\ context = None
    /\ phase = "idle"
    /\ call = None
    /\ result = None
    /\ trace = <<>>

NextArity ==
    \/ \E spec \in ArityLookups : GetSchemaForSpec(spec)
    \/ \E spec \in ArityLookups : GetDescription(spec)
    \/ TakeResult

SpecArity == InitArity /\ [][NextArity]_vars

---------------------------------------------------------------------------
(* Properties of parseAs and parseAsOrThrow, read off the state the caller *)
(* sees when the call is over.                                             *)

theCall == unwrap(call)

theResult == unwrap(result)

isParseFailure(e) == "err" \in DOMAIN e

\* the JsonParseError the call ended with, returned or thrown
theFailure ==
    IF IsLeft(theResult) /\ isParseFailure(theResult.left) THEN Some(theResult.left)
    ELSE IF IsThrown(theResult) /\ isParseFailure(theResult.thrown) THEN Some(theResult.thrown)
    ELSE None

\* the value the call ended with, returned by either method
theValue ==
    IF IsRight(theResult) THEN Some(theResult.right)
    ELSE IF "value" \in DOMAIN theResult THEN Some(theResult.value)
    ELSE None

\* what resolving the root specification gives
rootSchema == getSchemaForSpec(schemas.parser, theCall.spec)

\* the raw value of a well-formed text
theDoc == JSONparse(theCall.text.doc)

\* a member named __proto__ somewhere in a raw value
RECURSIVE hasProtoMember(_)
hasProtoMember(x) ==
    CASE "array" \in DOMAIN x  -> \E i \in 1..Len(x.array) : hasProtoMember(x.array[i])
      [] "object" \in DOMAIN x ->
            \E i \in 1..Len(x.object) : x.object[i].k = ProtoKey \/ hasProtoMember(x.object[i].v)
      [] OTHER -> FALSE

\* C1, as stated: parseAs never throws; for every text, specification and
\* registry it returns a success or a failure value.
C1_ParseAsNeverThrows ==
    (phase = "done" /\ theCall.op = "parseAs") => ~IsThrown(theResult)

\* C1, amended: parseAs returns every parse failure (a SyntaxError or a
\* JsonParseError) as a failure value and never throws one, but it throws what
\* resolving a specification, a description function or a finish callback
\* throws: a WrongNumberOfArgumentsError or an Error, and a TypeError only for
\* a text with a member named __proto__.  A malformed text gives the
\* SyntaxError failure value; a well-formed text whose root specification does
\* not resolve because of its arguments gives that exception.
C1_ParseAsThrowsOnlyResolutionErrors ==
    (phase = "done" /\ theCall.op = "parseAs") =>
        /\ IsRight(theResult) \/ IsLeft(theResult) \/ IsThrown(theResult)
        /\ IsLeft(theResult) =>
              theResult.left = SyntaxError \/ isParseFailure(theResult.left)
        /\ IsThrown(theResult) =>
              /\ "exc" \in DOMAIN theResult.thrown
              /\ theResult.thrown.exc \in {"WrongNumberOfArgumentsError", "Error", "TypeError"}
              /\ theResult.thrown.exc = "TypeError" => hasProtoMember(theDoc)
        /\ "malformed" \in DOMAIN theCall.text => theResult = [left |-> SyntaxError]
        /\ ("doc" \in DOMAIN theCall.text /\ IsThrown(rootSchema)) => theResult = rootSchema

\* parseAs threw the arity error of [Array, Boolean, Number]
C1_Witness ==
    /\ phase = "done"
    /\ theCall.op = "parseAs"
    /\ theCall.spec = List(<<Atom("Array"), Atom("Boolean"), Atom("Number")>>)
    /\ IsThrown(theResult)
    /\ theResult.thrown.exc = "WrongNumberOfArgumentsError"
    /\ theResult.thrown.numActual = 2

\* C2, as stated: whenever a call of loadAs, loadKeyAs or loadIndexAs returns a
\* success or a failure value, the context stack is the one the call was made
\* with.
C2_FramesBalanced ==
    \A i \in 1..Len(trace) :
        trace[i].ev = "return" => trace[i].after = trace[i].before

\* a loadAs returned an unknown-specification failure
C2_Witness ==
    \E i \in 1..Len(trace) :
        /\ trace[i].ev = "return"
        /\ trace[i].op = "loadAs"
        /\ trace[i].outcome = "UnknownSpecError"

\* C3: the parse runs from a context of the single top-level frame, and when
\* the call is over, however it ended, the parser's context is empty.
C3_ContextResetAndCleared ==
    /\ context = None
    /\ phase = "done" =>
          /\ trace # <<>>
          /\ trace[1] = [ev |-> "enter", context |-> Some(topLevelContext)]

\* a finish callback threw during parseAsOrThrow, and the context is empty
C3_Witness ==
    /\ phase = "done"
    /\ theCall.op = "parseAsOrThrow"
    /\ IsThrown(theResult)
    /\ theResult.thrown = [exc |-> "Error", message |-> <<"finish failed">>]
    /\ context = None

---------------------------------------------------------------------------
(* Properties of objectSchema, on calls whose root specification resolves  *)
(* to an objectSchema and whose text is an object with no member named     *)
(* __proto__ (what such a member does is the subject of C12).              *)

objectCase ==
    /\ phase = "done"
    /\ "doc" \in DOMAIN theCall.text
    /\ "object" \in DOMAIN theCall.text.doc
    /\ ~hasProtoMember(theDoc)
    /\ IsRight(rootSchema)
    /\ isSome(rootSchema.right)
    /\ "h" \in DOMAIN unwrap(rootSchema.right)["onObject"]
    /\ unwrap(rootSchema.right)["onObject"].h = "objectSchema"

theFields == unwrap(rootSchema.right)["onObject"].ks

theFinish == unwrap(rootSchema.right)["onObject"].onRes

declaredKeys == [i \in 1..Len(theFields) |-> theFields[i].k]

theObject == parse(theCall.text).right.object

presentKeys == [j \in 1..Len(theObject) |-> theObject[j].k]

fieldSpec(k) == theFields[CHOOSE i \in 1..Len(theFields) : theFields[i].k = k].v

\* the members of the object that are declared fields
declaredMembers == {j \in 1..Len(theObject) : theObject[j].k \in Range(declaredKeys)}

\* what loading member j on its own against its field's specification gives
fieldLoad(j) ==
    loadAs(schemas, [context |-> Some(topLevelContext), trace |-> <<>>],
           theObject[j].v, fieldSpec(theObject[j].k)).out

absentKeys == SelectSeq(declaredKeys, LAMBDA k : k \notin Range(presentKeys))

undeclaredKeys == SelectSeq(presentKeys, LAMBDA k : k \notin Range(declaredKeys))

\* the keys loadKeyAs was called with, in the order of the calls
loadedKeys ==
    LET calls == SelectSeq(trace, LAMBDA e : e.ev = "call" /\ e.op = "loadKeyAs")
    IN  [i \in 1..Len(calls) |-> calls[i].key]

C8_UnknownKeysAggregatedFirst ==
    ( /\ objectCase
      /\ \A j \in declaredMembers : IsRight(fieldLoad(j))
      /\ undeclaredKeys # <<>> )
    => /\ theFailure # None
       /\ unwrap(theFailure).err = "UnknownKeysError"
       /\ unwrap(theFailure).detail.keys = undeclaredKeys

\* two undeclared keys around a declared one, with declared fields missing
C8_Witness ==
    /\ objectCase
    /\ presentKeys = <<"q2", "p2", "q1">>
    /\ absentKeys = <<"p1", "p3">>
    /\ theFailure # None
    /\ unwrap(theFailure).err = "UnknownKeysError"
    /\ unwrap(theFailure).detail.keys = <<"q2", "q1">>

\* the first declared member whose load fails
firstFailing ==
    CHOOSE j \in declaredMembers :
        /\ ~IsRight(fieldLoad(j))
        /\ \A i \in declaredMembers : i < j => IsRight(fieldLoad(i))

\* C9: when the load of a present declared field fails, that failure is the
\* result at once: no later key is loaded, and neither the unknown-keys nor the
\* missing-keys error is returned, whatever undeclared keys came before and
\* whatever declared fields are absent.
C9_NestedFailureAtOnce ==
    ( /\ objectCase
      /\ \E j \in declaredMembers : ~IsRight(fieldLoad(j))
      /\ IsLeft(fieldLoad(firstFailing)) )
    => /\ theFailure # None
       /\ unwrap(theFailure).err = fieldLoad(firstFailing).left.err
       /\ unwrap(theFailure).detail = fieldLoad(firstFailing).left.detail
       /\ unwrap(theFailure).err \notin {"UnknownKeysError", "MissingKeysError"}
       /\ Len(unwrap(theFailure).context) >= 3
       /\ unwrap(theFailure).context[3] = [fr |-> "KeyEntered", key |-> theObject[firstFailing].k]
       /\ loadedKeys = SelectSeq(SubSeq(presentKeys, 1, firstFailing),
                                 LAMBDA k : k \in Range(declaredKeys))

\* an undeclared key, then a field that fails, then another field; one absent
C9_Witness ==
    /\ objectCase
    /\ presentKeys = <<"q1", "p1", "p2">>
    /\ undeclaredKeys = <<"q1">>
    /\ absentKeys = <<"p3">>
    /\ ~IsRight(fieldLoad(2))
    /\ firstFailing = 2
    /\ theFailure # None
    /\ unwrap(theFailure).err = "JsonTypeError"
    /\ loadedKeys = <<"p1">>

\* C10: when the object's keys are exactly the declared fields and every value
\* loads, the call succeeds with what finish returns for the mapping from each
\* declared field name to the loaded value of that field.
C10_FinishReceivesDeclaredFields ==
    ( /\ objectCase
      /\ Range(presentKeys) = Range(declaredKeys)
      /\ \A j \in declaredMembers : IsRight(fieldLoad(j)) )
    => LET mapping == [j \in 1..Len(theObject) |->
                          [k |-> theObject[j].k, v |-> fieldLoad(j).right]]
       IN  /\ theValue # None
           /\ [right |-> unwrap(theValue)] = callOnRes(theFinish, [object |-> mapping])
           /\ {mapping[j].k : j \in 1..Len(mapping)} = Range(declaredKeys)
           /\ Len(mapping) = Len(declaredKeys)

\* the three fields, written in another order than declared
C10_Witness ==
    /\ objectCase
    /\ presentKeys = <<"p3", "p1", "p2">>
    /\ theValue # None
    /\ unwrap(theValue) =
          [new |-> "Empty",
           arg |-> [object |-> << [k |-> "p3", v |-> [null |-> TRUE]],
                                  [k |-> "p1", v |-> [boolean |-> TRUE]],
                                  [k |-> "p2", v |-> [number |-> 1]] >>]]

---------------------------------------------------------------------------
(* Properties of the registry lookup, against the addSpec calls made.      *)

keyOf(r) == flattenTySpec(r.spec)

registeredKeys == {keyOf(registered[i]) : i \in 1..Len(registered)}

theKey == flattenTySpec(theCall.spec)

registeredPrefixes == {k \in registeredKeys : IsPrefix(k, theKey)}

longestPrefix ==
    CHOOSE k \in registeredPrefixes : \A k2 \in registeredPrefixes : Len(k2) <= Len(k)

properlyExtended(k) == \E k2 \in registeredKeys : k2 # k /\ IsPrefix(k, k2)

\* the last addSpec call made for the key k
lastRegistered(k) ==
    registered[CHOOSE i \in 1..Len(registered) :
                   /\ keyOf(registered[i]) = k
                   /\ \A j \in (i + 1)..Len(registered) : keyOf(registered[j]) # k]

\* the entry that call stored
entryOf(r) == unwrap(get(register(emptySchemas, "user", r), keyOf(r)))

theFound == trace[1].found

lookupCase == phase = "done" /\ theCall.op = "getSchemaForSpec"

\* what getSchemaForSpec gives when it calls the builder of registration r on args
built(r, args) ==
    LET b == callBuilder(unwrap(entryOf(r).builder), args)
    IN  IF IsThrown(b) THEN b ELSE [right |-> Some(b.right)]

\* C4, as stated: the lookup reports no match only when no registered key is a
\* prefix of the flattened specification.
C4_NoMatchOnlyWithoutPrefix ==
    lookupCase => (theResult = [right |-> None] => registeredPrefixes = {})

\* C4, amended: the lookup matches the longest registered prefix of the
\* flattened specification, with the remaining atoms as arguments, when that
\* prefix is the whole flattened specification or no registered key properly
\* extends it; in every other case it reports no match, also when a registered
\* key is a prefix.
C4_LongestPrefixUnlessExtended ==
    lookupCase =>
        IF /\ registeredPrefixes # {}
           /\ (longestPrefix = theKey \/ ~properlyExtended(longestPrefix))
        THEN /\ IsRight(theFound)
             /\ isSome(theFound.right)
             /\ unwrap(theFound.right).f = unwrap(entryOf(lastRegistered(longestPrefix)).builder)
             /\ flatten(unwrap(theFound.right).args)
                    = SubSeq(theKey, Len(longestPrefix) + 1, Len(theKey))
             /\ theResult = built(lastRegistered(longestPrefix), unwrap(theFound.right).args)
        ELSE /\ theFound = [right |-> None]
             /\ theResult = [right |-> None]

\* with Array and [Array, Map] registered, [Array, Map, String] matches
\* [Array, Map] and passes String
C4_Witness ==
    /\ lookupCase
    /\ registeredKeys = {<<Atom("Array")>>, <<Atom("Array"), Atom("Map")>>}
    /\ theCall.spec = List(<<Atom("Array"), Atom("Map"), Atom("String")>>)
    /\ IsRight(theFound)
    /\ isSome(theFound.right)
    /\ unwrap(theFound.right).args = <<Atom("String")>>
    /\ IsRight(theResult)
    /\ isSome(theResult.right)

\* C5: when the registered prefix that matches is the head of the specification
\* alone, the builder is called with the other elements of the specification
\* as they are written, a bracketed element as one argument.
C5_ArgumentsKeepBrackets ==
    ( /\ lookupCase
      /\ isArray(theCall.spec)
      /\ Len(theCall.spec.list) > 1
      /\ ~isArray(theCall.spec.list[1])
      /\ registeredPrefixes = {<<theCall.spec.list[1]>>}
      /\ ~properlyExtended(<<theCall.spec.list[1]>>) )
    => /\ IsRight(theFound)
       /\ isSome(theFound.right)
       /\ unwrap(theFound.right).args = Tail(theCall.spec.list)
       /\ theResult = built(lastRegistered(<<theCall.spec.list[1]>>), Tail(theCall.spec.list))

\* with Array alone registered, [Array, [Map, String]] gives the array schema
\* whose elements are [Map, String]
C5_Witness ==
    /\ lookupCase
    /\ registeredKeys = {<<Atom("Array")>>}
    /\ theCall.spec = List(<<Atom("Array"), List(<<Atom("Map"), Atom("String")>>)>>)
    /\ theResult = [right |-> Some(arraySchema(List(<<Atom("Map"), Atom("String")>>), "id"))]

---------------------------------------------------------------------------
(* Properties of the arity check, on the one registration of SpecArity.    *)

theRegistration == registered[1]

givenArgs == IF isArray(theCall.spec) THEN Tail(theCall.spec.list) ELSE <<>>

\* the call runs a registered function: a loader or a description function
runsFunction ==
    /\ phase = "done"
    /\ \/ /\ theCall.op = "getSchemaForSpec"
          /\ theRegistration.opts.load # None
          /\ "loader" \in DOMAIN unwrap(theRegistration.opts.load)
       \/ /\ theCall.op = "getDescription"
          /\ theRegistration.opts.description # None
          /\ "descr" \in DOMAIN unwrap(theRegistration.opts.description)

theFunction ==
    IF theCall.op = "getSchemaForSpec" THEN unwrap(theRegistration.opts.load).loader
    ELSE unwrap(theRegistration.opts.description).descr

minArity == theFunction.length

maxArity ==
    IF theRegistration.opts.maxArgs # None THEN Finite(unwrap(theRegistration.opts.maxArgs))
    ELSE IF theFunction.rest THEN Infinity
    ELSE Finite(theFunction.length)

withinArity(n) == minArity <= n /\ (maxArity = Infinity \/ n <= maxArity[1])

\* what the function gives when it is called
invoked ==
    IF theCall.op = "getSchemaForSpec" THEN [right |-> Some(callLoader(theFunction, givenArgs))]
    ELSE [right |-> describedAs(theFunction, <<>>)]

rangeAsStated ==
    IF maxArity = Finite(minArity) THEN <<"exactly ", ToString(minArity)>>
    ELSE IF maxArity = Infinity THEN <<"at least ", ToString(minArity)>>
    ELSE <<"at least ", ToString(minArity), " and ", "at most ", ToString(maxArity[1])>>

rangeAsRendered ==
    IF maxArity = Finite(minArity) THEN <<"exactly ", ToString(minArity)>>
    ELSE IF maxArity = Infinity THEN <<"at least ", ToString(minArity)>>
    ELSE IF minArity = 0 THEN <<"at most ", ToString(maxArity[1])>>
    ELSE <<"at least ", ToString(minArity), " and ", "at most ", ToString(maxArity[1])>>

arityErrorWith(range) ==
    /\ IsThrown(theResult)
    /\ theResult.thrown.exc = "WrongNumberOfArgumentsError"
    /\ theResult.thrown.spec = List(keyOf(theRegistration))
    /\ theResult.thrown.numActual = Len(givenArgs)
    /\ theResult.thrown.message =
          <<"The specification ">> \o getDescriptionBase(theRegistration.spec)
          \o <<" was given ", ToString(Len(givenArgs)), " argument",
               IF Len(givenArgs) = 1 THEN "" ELSE "s", ", but expected ">>
          \o range

\* C6, as stated: the function is called iff min <= n <= max, and otherwise the
\* lookup fails with WrongNumberOfArgumentsError whose range reads 'exactly N'
\* when min = max, 'at least N' when max is unbounded, and 'at least N and at
\* most M' otherwise.
C6_ArityEnforcedAsStated ==
    runsFunction =>
        IF withinArity(Len(givenArgs)) THEN theResult = invoked
        ELSE arityErrorWith(rangeAsStated)

\* C6, amended: as stated, except that the range reads 'at most M' when min is 0
\* and max is finite and not 0.
C6_ArityEnforced ==
    runsFunction =>
        IF withinArity(Len(givenArgs)) THEN theResult = invoked
        ELSE arityErrorWith(rangeAsRendered)

\* a loader of no mandatory parameter with maxArgs 1, given two arguments
C6_Witness ==
    /\ runsFunction
    /\ theCall.op = "getSchemaForSpec"
    /\ minArity = 0
    /\ maxArity = Finite(1)
    /\ Len(givenArgs) = 2
    /\ IsThrown(theResult)
    /\ theResult.thrown.expStr = <<"at most ", "1">>

---------------------------------------------------------------------------
(* Properties of arraySchema, on calls whose root specification resolves   *)
(* to an arraySchema and whose text is an array.                           *)

arrayCase ==
    /\ phase = "done"
    /\ theCall.op \in {"parseAs", "parseAsOrThrow"}
    /\ "doc" \in DOMAIN theCall.text
    /\ "array" \in DOMAIN theCall.text.doc
    /\ IsRight(rootSchema)
    /\ isSome(rootSchema.right)
    /\ "h" \in DOMAIN unwrap(rootSchema.right)["onArray"]
    /\ unwrap(rootSchema.right)["onArray"].h = "genArraySchema"

theElementSpec == unwrap(rootSchema.right)["onArray"].eltSpec

theArrayFinish == unwrap(rootSchema.right)["onArray"].onRes

theArray == parse(theCall.text).right.array

\* what loading element i (from 1) on its own against the element specification gives
elemLoad(i) ==
    loadAs(schemas, [context |-> Some(topLevelContext), trace |-> <<>>],
           theArray[i], theElementSpec).out

\* the indices the root array's loader called loadIndexAs with, in the order of
\* the calls: the calls made under the root's frame, with nothing on top of it
\* but index frames that earlier elements left behind
loadedIndices ==
    LET calls == SelectSeq(trace, LAMBDA e : /\ e.ev = "call"
                                             /\ e.op = "loadIndexAs"
                                             /\ \A k \in 3..Len(unwrap(e.before)) :
                                                   unwrap(e.before)[k].fr = "AtIndex")
    IN  [i \in 1..Len(calls) |-> calls[i].index]

\* the first element whose load does not succeed
firstFailingElem ==
    CHOOSE i \in 1..Len(theArray) :
        /\ ~IsRight(elemLoad(i))
        /\ \A j \in 1..(i - 1) : IsRight(elemLoad(j))

\* C11: arraySchema loads the elements in index order through loadIndexAs; at
\* the lowest-index element that fails it returns that element's failure, at
\* that index, and loads no later element; when all succeed, finish receives
\* the loaded values in the original order and with the original length.
C11_ArrayFirstFailureWins ==
    arrayCase =>
        IF \E i \in 1..Len(theArray) : ~IsRight(elemLoad(i))
        THEN /\ loadedIndices = [i \in 1..firstFailingElem |-> i - 1]
             /\ IsLeft(elemLoad(firstFailingElem)) =>
                   /\ theFailure # None
                   /\ unwrap(theFailure).err = elemLoad(firstFailingElem).left.err
                   /\ unwrap(theFailure).detail = elemLoad(firstFailingElem).left.detail
                   /\ \E k \in 1..Len(unwrap(theFailure).context) :
                         unwrap(theFailure).context[k] =
                            [fr |-> "AtIndex", index |-> firstFailingElem - 1]
        ELSE LET loaded == [i \in 1..Len(theArray) |-> elemLoad(i).right]
             IN  /\ loadedIndices = [i \in 1..Len(theArray) |-> i - 1]
                 /\ theValue # None
                 /\ [right |-> unwrap(theValue)] = callOnRes(theArrayFinish, [array |-> loaded])
                 /\ Len(loaded) = Len(theArray)

\* [1, true] against [Array, Boolean]: the failure of index 0, and index 1 not loaded
C11_Witness ==
    /\ arrayCase
    /\ theCall.text = [doc |-> [array |-> <<[number |-> 1], [boolean |-> TRUE]>>]]
    /\ theCall.spec = List(<<Atom("Array"), Atom("Boolean")>>)
    /\ theFailure # None
    /\ unwrap(theFailure).err = "JsonTypeError"
    /\ unwrap(theFailure).context[3] = [fr |-> "AtIndex", index |-> 0]
    /\ loadedIndices = <<0>>

---------------------------------------------------------------------------
(* Round trips through the value tree.                                     *)

isScalar(x) == DOMAIN x \cap {"boolean", "number", "string", "null"} # {}

\* the built-in specification of a scalar's kind
matchingSpec(x) ==
    CASE "boolean" \in DOMAIN x -> Atom("Boolean")
      [] "number" \in DOMAIN x  -> Atom("Number")
      [] "string" \in DOMAIN x  -> Atom("String")
      [] OTHER                   -> Atom("null")

\* the parser resolves spec as the built-in registry does
resolvesAsBuiltIn(spec) ==
    /\ get(defaultSchema, flattenTySpec(spec)) # None
    /\ mostSpecificSchema(schemas.parser, spec) = mostSpecificSchema(defaultSchema, spec)

roundTripCase ==
    /\ phase = "done"
    /\ theCall.op \in {"parseAs", "parseAsOrThrow"}
    /\ "doc" \in DOMAIN theCall.text
    /\ resolvesAsBuiltIn(theCall.spec)

\* C12, as stated: a boolean, number, string or null loaded against the
\* built-in specification of its kind gives exactly that value, and any JSON
\* value loaded against AnyTy gives the value unchanged.
C12_RoundTrip ==
    roundTripCase =>
        /\ (isScalar(theDoc) /\ theCall.spec = matchingSpec(theDoc)) => theValue = Some(theDoc)
        /\ theCall.spec = AnyTy => theValue = Some(theDoc)

\* the part of C12 that holds: scalars, and the values without a member named
\* __proto__
C12_RoundTripWithoutProto ==
    roundTripCase =>
        /\ (isScalar(theDoc) /\ theCall.spec = matchingSpec(theDoc)) => theValue = Some(theDoc)
        /\ (theCall.spec = AnyTy /\ ~hasProtoMember(theDoc)) => theValue = Some(theDoc)

\* {"__proto__": 1} against AnyTy: parseAs threw a TypeError
C12_Witness ==
    /\ roundTripCase
    /\ theCall.op = "parseAs"
    /\ theCall.spec = AnyTy
    /\ theDoc = [object |-> <<[k |-> ProtoKey, v |-> [number |-> 1]]>>]
    /\ theResult = [thrown |-> NotAFunction]

\* {"value": 1, "__proto__": null, "ty": true} against AnyTy: the member is dropped
C12_WitnessDropped ==
    /\ roundTripCase
    /\ theCall.spec = AnyTy
    /\ hasProtoMember(theDoc)
    /\ theValue = Some([object |-> <<[k |-> "value", v |-> [number |-> 1]],
                                      [k |-> "ty", v |-> [boolean |-> TRUE]]>>])

\* the empty string against String, and false against Boolean
C12_WitnessScalar ==
    /\ roundTripCase
    /\ theCall.spec = Atom("String")
    /\ theDoc = [string |-> ""]
    /\ theValue = Some([string |-> ""])

---------------------------------------------------------------------------
(* Properties of the handlers a schema leaves unset.                       *)

theNode == parse(theCall.text).right

\* the handler the constructor fills in for a kind the schema does not define
unsetHandler == JsonSchema(<<>>)["onArray"]

handlerOfKind ==
    [array |-> "onArray", boolean |-> "onBoolean", null |-> "onNull", number |-> "onNumber",
     object |-> "onObject", string |-> "onString"]

\* the root specification resolves to a schema that leaves the handler for the
\* kind of the text's node unset
unsetCase ==
    /\ phase = "done"
    /\ "doc" \in DOMAIN theCall.text
    /\ IsRight(rootSchema)
    /\ isSome(rootSchema.right)
    /\ unwrap(rootSchema.right)[handlerOfKind[theNode.ty]] = unsetHandler

isTypeErrorOfKind(kind) ==
    /\ theFailure # None
    /\ unwrap(theFailure).err = "JsonTypeError"
    /\ unwrap(theFailure).detail.actualTyDesc = <<kind>>

\* the text of the context in which the root node is loaded
rootContextRendered ==
    renderFull(schemas, readingValueForSpec(topLevelContext, "parser", theCall.spec, theNode))

\* C13, as stated: a schema that leaves the handler for a node's kind unset
\* returns the type-error failure whose actual kind is the node's kind, and
\* on does not throw.
C13_UnsetHandlersNeverThrow ==
    unsetCase => isTypeErrorOfKind(theNode.ty)

\* C13, amended: a schema that leaves the handler for a node's kind unset
\* makes the type-error failure whose actual kind is the node's kind; on
\* returns it unless writing the failure's message throws (a description
\* function that rejects its arguments, or a value with a member named
\* __proto__), and then on throws that exception.
C13_UnsetHandlersGiveTypeError ==
    unsetCase =>
        IF IsThrown(rootContextRendered)
        THEN /\ IsThrown(theResult)
             /\ theResult = rootContextRendered
        ELSE isTypeErrorOfKind(theNode.ty)

\* a number against Boolean: the type error names a number
C13_Witness ==
    /\ unsetCase
    /\ theCall.spec = Atom("Boolean")
    /\ theNode = [ty |-> "number", number |-> 1]
    /\ isTypeErrorOfKind("number")

\* true against Described, whose description function wants one argument
C13_WitnessThrown ==
    /\ unsetCase
    /\ theCall.spec = Atom("Described")
    /\ theNode.ty = "boolean"
    /\ IsThrown(theResult)
    /\ theResult.thrown.exc = "WrongNumberOfArgumentsError"

---------------------------------------------------------------------------
(* Properties of anyOf, on calls whose root specification is               *)
(* [anyOf, t1, ..., tn] resolved by the built-in entry.                    *)

anyOfCase ==
    /\ phase = "done"
    /\ "doc" \in DOMAIN theCall.text
    /\ isArray(theCall.spec)
    /\ theCall.spec.list # <<>>
    /\ Head(theCall.spec.list) = Atom("anyOf")
    /\ IsRight(rootSchema)
    /\ isSome(rootSchema.right)
    /\ "h" \in DOMAIN unwrap(rootSchema.right)["onArray"]
    /\ unwrap(rootSchema.right)["onArray"].h = "anyOf"

theAlternatives == Tail(theCall.spec.list)

\* the context in which the root node is loaded: the top level and the frame
\* of the root specification
rootContext == readingValueForSpec(topLevelContext, "parser", theCall.spec, theNode)

\* what loading the node against alternative i on its own gives
altLoad(i) ==
    loadAs(schemas, [context |-> Some(rootContext), trace |-> <<>>], theNode, theAlternatives[i]).out

\* the specifications loadAs was called with after the root's, in the order of the calls
triedSpecs ==
    LET calls == SelectSeq(trace, LAMBDA e : e.ev = "call" /\ e.op = "loadAs")
    IN  [i \in 1..(Len(calls) - 1) |-> calls[i + 1].spec]

\* the alternatives before i fail with a failure value
failBefore(i) == \A j \in 1..(i - 1) : IsLeft(altLoad(j))

\* C14, as stated: the alternatives are tried in order and the first that
\* loads gives the result, the later ones not being tried; when every
\* alternative fails the result is the type error for the node's kind whose
\* context ends with the frame of the anyOf specification, with no frame of a
\* failed alternative after it.
C14_AnyOfFirstSuccessOrCleanTypeError ==
    anyOfCase =>
        /\ \A i \in 1..Len(theAlternatives) :
              (failBefore(i) /\ IsRight(altLoad(i))) =>
                  /\ theValue = Some(altLoad(i).right)
                  /\ triedSpecs = SubSeq(theAlternatives, 1, i)
        /\ failBefore(Len(theAlternatives) + 1) =>
              /\ isTypeErrorOfKind(theNode.ty)
              /\ unwrap(theFailure).context = rootContext

\* the frames that alternatives of an unregistered specification leave behind
RECURSIVE staleFrames(_)
staleFrames(i) ==
    IF i = 0 THEN <<>>
    ELSE staleFrames(i - 1) \o
         (IF getSchemaForSpec(schemas.parser, theAlternatives[i]) = [right |-> None]
          THEN <<[fr |-> "ReadingValueForSpec", schemas |-> "parser",
                  spec |-> theAlternatives[i], value |-> theNode]>>
          ELSE <<>>)

\* the part of C14 that holds: order, first success, and the type error for
\* the node's kind; the context of that error is the root context followed by
\* one frame for every alternative of an unregistered specification.
C14_AnyOfFirstSuccess ==
    (anyOfCase /\ ~hasProtoMember(theDoc)) =>
        /\ \A i \in 1..Len(theAlternatives) :
              (failBefore(i) /\ IsRight(altLoad(i))) =>
                  /\ theValue = Some(altLoad(i).right)
                  /\ triedSpecs = SubSeq(theAlternatives, 1, i)
        /\ failBefore(Len(theAlternatives) + 1) =>
              /\ isTypeErrorOfKind(theNode.ty)
              /\ unwrap(theFailure).context = rootContext \o staleFrames(Len(theAlternatives))
              /\ triedSpecs = theAlternatives

\* 1 against [anyOf, Unknown, Boolean]: the type error's context ends with the
\* frame of Unknown
C14_Witness ==
    /\ anyOfCase
    /\ theCall.spec = List(<<Atom("anyOf"), Atom("Unknown"), Atom("Boolean")>>)
    /\ theNode = [ty |-> "number", number |-> 1]
    /\ isTypeErrorOfKind("number")
    /\ Len(unwrap(theFailure).context) = 3
    /\ unwrap(theFailure).context[3].spec = Atom("Unknown")

\* true against [anyOf, Boolean, Number]: Number is not tried
C14_WitnessFirst ==
    /\ anyOfCase
    /\ theCall.spec = List(<<Atom("anyOf"), Atom("Boolean"), Atom("Number")>>)
    /\ theValue = Some([boolean |-> TRUE])
    /\ triedSpecs = <<Atom("Boolean")>>

\* 1 against [anyOf, Boolean, Number]: the second alternative gives the result
C14_WitnessSecond ==
    /\ anyOfCase
    /\ theCall.spec = List(<<Atom("anyOf"), Atom("Boolean"), Atom("Number")>>)
    /\ theValue = Some([number |-> 1])
    /\ triedSpecs = <<Atom("Boolean"), Atom("Number")>>

---------------------------------------------------------------------------
(* Properties of tuple, on calls whose root specification is               *)
(* [tuple, t1, ..., tn] resolved by the built-in entry and whose text is   *)
(* an array.                                                               *)

tupleCase ==
    /\ phase = "done"
    /\ "doc" \in DOMAIN theCall.text
    /\ "array" \in DOMAIN theCall.text.doc
    /\ ~hasProtoMember(theDoc)
    /\ IsRight(rootSchema)
    /\ isSome(rootSchema.right)
    /\ "h" \in DOMAIN unwrap(rootSchema.right)["onArray"]
    /\ unwrap(rootSchema.right)["onArray"].h = "tuple"

thePositions == Tail(theCall.spec.list)

\* what loading element i (from 1) against its position's specification on its
\* own gives
positionLoad(i) ==
    loadAs(schemas, [context |-> Some(rootContext), trace |-> <<>>],
           theNode.array[i], thePositions[i]).out

firstFailingPosition(i) ==
    /\ i \in 1..Len(thePositions)
    /\ IsLeft(positionLoad(i))
    /\ \A j \in 1..(i - 1) : IsRight(positionLoad(j))

tupleLengthAndSuccess ==
    /\ Len(theNode.array) # Len(thePositions) =>
          /\ theFailure # None
          /\ unwrap(theFailure).err = "JsonTypeError"
          /\ unwrap(theFailure).detail.actualTyDesc =
                 <<"array of length ", ToString(Len(theNode.array))>>
          /\ unwrap(theFailure).context = rootContext
          /\ triedSpecs = <<>>
    /\ ( /\ Len(theNode.array) = Len(thePositions)
         /\ \A i \in 1..Len(thePositions) : IsRight(positionLoad(i)) ) =>
          theValue = Some([array |-> [i \in 1..Len(thePositions) |-> positionLoad(i).right]])

C15_WitnessLength ==
    /\ tupleCase
    /\ Len(theNode.array) = 1
    /\ Len(thePositions) = 2
    /\ unwrap(theFailure).detail.actualTyDesc = <<"array of length ", "1">>

\* [true, 1] against [tuple, Boolean, Number]
C15_WitnessLoaded ==
    /\ tupleCase
    /\ theValue = Some([array |-> <<[boolean |-> TRUE], [number |-> 1]>>])

---------------------------------------------------------------------------
(* Merging registries: three registries A, B and C are filled with addSpec *)
(* calls one after another, then merged (flat, and nested both ways) or    *)
(* handed to a new JsonParser, and a specification is looked up in the     *)
(* outcome.                                                                *)

RegistryNames == <<"A", "B", "C">>

\* the addSpec calls made on registry n; every entry tells its registry
MergeRegistrations(n) ==
    { tagged(Atom("Array"), n),
      Registration(FALSE, List(<<Atom("Array"), Atom("Map")>>), Opts(None, None, Schema(numberSchema(n)))),
      Registration(FALSE, Atom("Boolean"), Opts(Text(n), None, None)),
      Registration(FALSE, Atom("Empty"),
                   Opts(Descr(Fn("Array", 0, FALSE)), Some(1), Schema(nullSchema(n)))) }

MergeLookups ==
    { Atom("Array"), Atom("Boolean"), Atom("Empty"), Atom("Number"),
      List(<<Atom("Array"), Atom("Map")>>),
      List(<<Atom("Array"), Atom("Boolean")>>),
      List(<<Atom("Object"), Atom("Boolean")>>),
      List(<<Atom("Map"), Atom("Boolean")>>),
      List(<<Atom("Array"), Atom("Map"), Atom("String")>>),
      List(<<Atom("Empty"), Atom("Boolean")>>) }

InitMerge ==
    /\ schemas = [default |-> defaultSchema,
                  A |-> emptySchemas, B |-> emptySchemas, C |-> emptySchemas,
                  flat |-> emptySchemas, left |-> emptySchemas, right |-> emptySchemas,
                  parser |-> emptySchemas]
    /\ registered = <<>>
    /\ context = None
    /\ phase = "idle"
    /\ call = None
    /\ result = None
    /\ trace = <<>>

\* RegistryNames[i].addSpec(...); the registries are filled in the order A, B, C
AddSpecTo(i, r) ==
    /\ phase = "idle"
    /\ Len(registered) < MaxAdds
    /\ registered # <<>> => registered[Len(registered)].to <= i
    /\ schemas' = [schemas EXCEPT ![RegistryNames[i]] = register(@, RegistryNames[i], r)]
    /\ registered' = Append(registered, [to |-> i, r |-> r])
    /\ UNCHANGED <<context, phase, call, result, trace>>

\* mergeSchemas(A, B, C), mergeSchemas(mergeSchemas(A, B), C) and
\* mergeSchemas(A, mergeSchemas(B, C))
MergeSchemas ==
    /\ phase = "idle"
    /\ schemas' = [schemas EXCEPT
                      !.flat  = mergeSchemas(<<schemas.A, schemas.B, schemas.C>>),
                      !.left  = mergeSchemas(<<mergeSchemas(<<schemas.A, schemas.B>>), schemas.C>>),
                      !.right = mergeSchemas(<<schemas.A, mergeSchemas(<<schemas.B, schemas.C>>)>>)]
    /\ call' = Some([op |-> "mergeSchemas", into |-> {"flat", "left", "right"}])
    /\ phase' = "merged"
    /\ UNCHANGED <<context, result, trace, registered>>

\* new JsonParser(RegistryNames[i])
NewJsonParser(i) ==
    /\ phase = "idle"
    /\ schemas' = [schemas EXCEPT !.parser = newJsonParserSchemas(schemas[RegistryNames[i]], FALSE)]
    /\ call' = Some([op |-> "newJsonParser", of |-> RegistryNames[i], into |-> {"parser"}])
    /\ phase' = "merged"
    /\ UNCHANGED <<context, result, trace, registered>>

\* what registry m of H gives for spec: its loader, its description function
\* and its description
resolution(H, m, spec) ==
    [loader      |-> getSchemaForSpec(H[m], spec),
     descFn      |-> mostSpecificDescription(H[m], spec),
     description |-> getDescription(H, m, spec)]

\* getSchemaForSpec(spec) and getDescription(spec) on every registry just made
Lookup(spec) ==
    /\ phase = "merged"
    /\ result' = Some([m \in unwrap(call).into |-> resolution(schemas, m, spec)])
    /\ call' = Some(unwrap(call) @@ [spec |-> spec])
    /\ phase' = "done"
    /\ UNCHANGED <<schemas, context, trace, registered>>

NextMerge ==
    \/ \E i \in DOMAIN RegistryNames : \E r \in MergeRegistrations(RegistryNames[i]) : AddSpecTo(i, r)
    \/ MergeSchemas
    \/ \E i \in DOMAIN RegistryNames : NewJsonParser(i)
    \/ \E spec \in MergeLookups : Lookup(spec)

SpecMerge == InitMerge /\ [][NextMerge]_vars

---------------------------------------------------------------------------
(* Properties of merged registries. *)

lookedUp(op) == phase = "done" /\ theCall.op = op /\ "into" \in DOMAIN theCall

theMergeKey == flattenTySpec(theCall.spec)

\* the registries among A, B, C that register the key looked up
registering == {i \in DOMAIN RegistryNames : get(schemas[RegistryNames[i]], theMergeKey) # None}

lastRegistering == RegistryNames[CHOOSE i \in registering : \A j \in registering : j <= i]

\* registry m resolves the specification looked up to the entry that registry n holds
resolvesAsIn(m, n) ==
    /\ get(schemas[m], theMergeKey) = get(schemas[n], theMergeKey)
    /\ theResult[m].loader = getSchemaForSpec(schemas[n], theCall.spec)
    /\ theResult[m].descFn = mostSpecificDescription(schemas[n], theCall.spec)

\* C16: mergeSchemas(A, B, C) holds exactly the keys of A, B and C, and a key
\* resolves to the entry of the last registry that registers it; a parser
\* built with a caller registry resolves the caller's entry for every key the
\* caller registers, and the built-in entry for every other built-in key.
C16_MergeIsRightBiasedUnion ==
    /\ lookedUp("mergeSchemas") =>
          IF registering = {} THEN get(schemas.flat, theMergeKey) = None
          ELSE resolvesAsIn("flat", lastRegistering)
    /\ lookedUp("newJsonParser") =>
          IF get(schemas[theCall.of], theMergeKey) # None THEN resolvesAsIn("parser", theCall.of)
          ELSE IF get(schemas.default, theMergeKey) # None THEN resolvesAsIn("parser", "default")
          ELSE get(schemas.parser, theMergeKey) = None

\* Array registered in A, B and C: the merge resolves Array to C's entry
C16_Witness ==
    /\ lookedUp("mergeSchemas")
    /\ theCall.spec = Atom("Array")
    /\ registering = {1, 2, 3}
    /\ theResult.flat.loader = [right |-> Some(booleanSchema("C"))]

\* a parser built with a registry that registers Boolean and Array
C16_WitnessParser ==
    /\ lookedUp("newJsonParser")
    /\ theCall.spec = Atom("Boolean")
    /\ get(schemas[theCall.of], theMergeKey) # None
    /\ get(schemas[theCall.of], <<Atom("Array")>>) # None
    /\ theResult.parser.description = [right |-> <<theCall.of>>]
    /\ theResult.parser.loader = [right |-> None]

\* C17: mergeSchemas(A, mergeSchemas(B, C)) and mergeSchemas(mergeSchemas(A, B), C)
\* resolve every specification to the same loader and the same description.
C17_MergeIsAssociative ==
    lookedUp("mergeSchemas") =>
        /\ theResult.left.loader = theResult.right.loader
        /\ theResult.left.descFn = theResult.right.descFn
        /\ theResult.left.description = theResult.right.description

\* Array in A, [Array, Map] in B, Array in C: both ways give C's Array
C17_Witness ==
    /\ lookedUp("mergeSchemas")
    /\ theCall.spec = Atom("Array")
    /\ registered = << [to |-> 1, r |-> tagged(Atom("Array"), "A")],
                       [to |-> 2, r |-> Registration(FALSE, List(<<Atom("Array"), Atom("Map")>>),
                                                     Opts(None, None, Schema(numberSchema("B"))))],
                       [to |-> 3, r |-> tagged(Atom("Array"), "C")] >>
    /\ theResult.left.loader = [right |-> Some(booleanSchema("C"))]
    /\ theResult.right.loader = [right |-> Some(booleanSchema("C"))]

---------------------------------------------------------------------------
(* Properties of loadAs on a specification that no entry resolves.         *)

\* event t of the trace is a call of loadAs, during a parse, with a
\* specification that no entry of the parser's registry resolves
unknownSpecCall(t) ==
    /\ trace[t].ev = "call"
    /\ trace[t].op = "loadAs"
    /\ trace[t].before # None
    /\ getSchemaForSpec(schemas.parser, trace[t].spec) = [right |-> None]

\* the context loadAs is in when it finds no schema: the caller's, and the
\* frame of the specification
activeContext(t) ==
    readingValueForSpec(unwrap(trace[t].before), "parser", trace[t].spec, trace[t].value)

returnedUnknownSpec(t) ==
    /\ t < Len(trace)
    /\ trace[t + 1].ev = "return"
    /\ trace[t + 1].op = "loadAs"
    /\ trace[t + 1].before = trace[t].before
    /\ trace[t + 1].outcome = "UnknownSpecError"
    /\ unwrap(trace[t + 1].failure).context = activeContext(t)
    /\ unwrap(trace[t + 1].failure).detail = [spec |-> trace[t].spec]

\* C18, as stated: loadAs on a specification that no entry resolves returns,
\* and does not throw, the unknown-specification failure carrying the active
\* context, whatever the node, at the root and nested.
C18_UnknownSpecReturned ==
    \A t \in 1..Len(trace) : unknownSpecCall(t) => returnedUnknownSpec(t)

\* C18, amended: loadAs on a specification that no entry resolves returns the
\* unknown-specification failure carrying the active context, which ends
\* with the frame of that specification, unless writing the failure's
\* message throws; then loadAs throws that exception and the parse ends.
C18_UnknownSpecReturnedUnlessRenderingThrows ==
    \A t \in 1..Len(trace) :
        unknownSpecCall(t) =>
            IF IsThrown(renderFull(schemas, activeContext(t)))
            THEN /\ t = Len(trace)
                 /\ phase = "done" => theResult = renderFull(schemas, activeContext(t))
            ELSE returnedUnknownSpec(t)

\* [1] against [Array, Empty] with Empty unregistered: the failure is returned
\* under index 0
C18_Witness ==
    /\ phase = "done"
    /\ theCall.op = "parseAs"
    /\ theCall.spec = List(<<Atom("Array"), Atom("Empty")>>)
    /\ theCall.text = [doc |-> [array |-> <<[number |-> 1]>>]]
    /\ unknownSpecCall(4)
    /\ returnedUnknownSpec(4)
    /\ theFailure = trace[5].failure
    /\ unwrap(theFailure).context =
          <<[fr |-> "topLevel"],
            [fr |-> "ReadingValueForSpec", schemas |-> "parser", spec |-> theCall.spec,
             value |-> theNode],
            [fr |-> "AtIndex", index |-> 0],
            [fr |-> "ReadingValueForSpec", schemas |-> "parser", spec |-> Atom("Empty"),
             value |-> [ty |-> "number", number |-> 1]]>>

\* true against [anyOf, Unknown, Described]: describing the anyOf frame throws
C18_WitnessThrown ==
    /\ phase = "done"
    /\ theCall.spec = List(<<Atom("anyOf"), Atom("Unknown"), Atom("Described")>>)
    /\ unknownSpecCall(Len(trace))
    /\ IsThrown(theResult)

---------------------------------------------------------------------------
(* Properties of the parser's methods called while it is not parsing.      *)

\* C19: failWithTypeError, failWithMissingKeys, failWithUnknownKeys,
\* failWithUnknownSpec, loadAs, loadKeyAs and loadIndexAs called on a parser
\* that is not parsing throw the fatal 'not parsing' error, return no failure
\* value, and leave the parser idle.
C19_FatalWhenNotParsing ==
    phase = "called" =>
        /\ theResult = [thrown |-> Fatal]
        /\ context = None

\* loadKeyAs('p1', true, Boolean) on an idle parser
C19_Witness ==
    /\ phase = "called"
    /\ theCall.op = "loadKeyAs"
    /\ theCall.spec = Atom("Boolean")
    /\ theResult = [thrown |-> Fatal]
    /\ context = None

\* failWithMissingKeys(['p1', 'p3']) on an idle parser
C19_WitnessFailWith ==
    /\ phase = "called"
    /\ theCall.op = "failWithMissingKeys"
    /\ IsThrown(theResult)
    /\ theResult.thrown.message = <<"FATAL: tried to retrieve context when not parsing.">>

---------------------------------------------------------------------------
(* Properties of a parse started by a handler during a parse.              *)

\* event t of the trace: a handler's call of parseAs / parseAsOrThrow has returned
innerReturned(t) == trace[t].ev = "inner"

\* C20: when a handler running inside a parse calls parseAs or parseAsOrThrow
\* on the same parser, the context after the inner call has returned is not
\* the stack of before the call: it is empty; when it calls them on another
\* parser with the same registry, the context is the stack of before.
C20_ReentrantParseLosesContext ==
    \A t \in 1..Len(trace) :
        innerReturned(t) =>
            /\ trace[t].before # None
            /\ trace[t].same => (trace[t].after # trace[t].before /\ trace[t].after = None)
            /\ ~trace[t].same => trace[t].after = trace[t].before

\* 1 against Reentrant: the handler's parseAs('true', Boolean) returned true,
\* and the frame of Reentrant is gone
C20_Witness ==
    /\ phase = "done"
    /\ theCall.spec = Atom("Reentrant")
    /\ theCall.text = [doc |-> [number |-> 1]]
    /\ theValue = Some([boolean |-> TRUE])
    /\ \E t \in 1..Len(trace) :
          /\ innerReturned(t)
          /\ trace[t].same
          /\ trace[t].before = Some(rootContext)
          /\ trace[t].after = None

\* 1 against Delegating: the other parser's parse leaves the frame
C20_WitnessSeparate ==
    /\ phase = "done"
    /\ theCall.spec = Atom("Delegating")
    /\ theValue = Some([boolean |-> TRUE])
    /\ \E t \in 1..Len(trace) :
          /\ innerReturned(t)
          /\ ~trace[t].same
          /\ trace[t].after = Some(rootContext)

---------------------------------------------------------------------------
(* Malformed text.                                                         *)

malformedCase ==
    /\ phase = "done"
    /\ theCall.op \in {"parseAs", "parseAsOrThrow"}
    /\ "malformed" \in DOMAIN theCall.text

\* C21: for a text that is not well-formed JSON, parseAs returns the
\* SyntaxError as a failure value and parseAsOrThrow throws it; the error is
\* no JsonParseError and carries no context; no load was called, so that no
\* specification was resolved and no frame pushed: the parser did nothing
\* between entering with the top-level context and the cleanup.
C21_MalformedTextGivesSyntaxError ==
    malformedCase =>
        /\ theCall.op = "parseAs" => theResult = [left |-> SyntaxError]
        /\ theCall.op = "parseAsOrThrow" => theResult = [thrown |-> SyntaxError]
        /\ ~isParseFailure(SyntaxError)
        /\ "context" \notin DOMAIN SyntaxError
        /\ trace = <<[ev |-> "enter", context |-> Some(topLevelContext)]>>
        /\ context = None

\* parseAsOrThrow of a malformed text against a specification that is not
\* registered threw the SyntaxError
C21_Witness ==
    /\ malformedCase
    /\ theCall.op = "parseAsOrThrow"
    /\ theCall.spec = List(<<Atom("anyOf"), Atom("Unknown"), Atom("Boolean")>>)
    /\ theResult = [thrown |-> SyntaxError]

\* parseAs of a malformed text returned the SyntaxError
C21_WitnessReturned ==
    /\ malformedCase
    /\ theCall.op = "parseAs"
    /\ theCall.spec = Atom("wants2Args")
    /\ theResult = [left |-> SyntaxError]

---------------------------------------------------------------------------
(* Aliases.  addAlias is not part of json.ts as it stands; its callers are *)
(* the registry set-ups of the tests (customArraySchemas.addAlias(         *)
(* customArray, [customArray, AnyTy])).  An alias maps the flattened key   *)
(* of a specification to the specification that replaces it; a lookup      *)
(* rewrites its specification until no alias applies, then matches.        *)
(* `schemas.aliases` is the alias map of the parser's registry; the        *)
(* aliases registered form no cycle.                                       *)

\* this.addAlias(spec, alias): the alias map afterwards
addAlias(aliases, spec, alias) ==
    [k \in DOMAIN aliases \cup {flattenTySpec(spec)} |->
        IF k = flattenTySpec(spec) THEN alias ELSE aliases[k]]

\* a variant that rewrites once
resolveAliasOnce(aliases, spec) ==
    IF flattenTySpec(spec) \in DOMAIN aliases THEN aliases[flattenTySpec(spec)] ELSE spec

RECURSIVE resolveAlias(_, _)
resolveAlias(aliases, spec) ==
    IF flattenTySpec(spec) \in DOMAIN aliases
    THEN resolveAlias(aliases, aliases[flattenTySpec(spec)])
    ELSE spec

\* getSchemaForSpec and getDescription of a registry with aliases
getSchemaForSpecAliased(H, spec) ==
    getSchemaForSpec(H.parser, resolveAlias(H.aliases, spec))

getDescriptionAliased(H, spec) ==
    getDescription(H, "parser", resolveAlias(H.aliases, spec))

\* customArraySchemas of the tests: a loader of one mandatory argument
customArrayRegistrations ==
    << Registration(FALSE, Atom("customArray"),
                    Opts(Text("custom array"), None, Loader(Fn("MyArray", 1, FALSE)))) >>

\* the addAlias calls: [spec, alias]
AliasCalls ==
    { [spec |-> Atom("customArray"), alias |-> List(<<Atom("customArray"), AnyTy>>)],
      [spec |-> Atom("customArray"), alias |-> List(<<Atom("customArray"), Atom("Boolean")>>)],
      [spec |-> Atom("Short"), alias |-> Atom("customArray")],
      [spec |-> Atom("Short"), alias |-> List(<<Atom("Array"), Atom("Number")>>)],
      [spec |-> List(<<Atom("Short"), Atom("Boolean")>>), alias |-> Atom("Boolean")],
      [spec |-> Atom("Boolean"), alias |-> Atom("Number")] }

AliasLookups ==
    { Atom("customArray"), Atom("Short"), Atom("Boolean"), Atom("Number"), Atom("Unknown"),
      List(<<Atom("customArray"), AnyTy>>),
      List(<<Atom("customArray"), Atom("Boolean")>>),
      List(<<Atom("Short"), Atom("Boolean")>>),
      List(<<Atom("Short"), Atom("Number")>>),
      List(<<Atom("Array"), Atom("Number")>>) }

InitAlias ==
    /\ \E u \in {registerAll(emptySchemas, "user", customArrayRegistrations)} :
          schemas = [default |-> defaultSchema, user |-> u,
                     parser |-> newJsonParserSchemas(u, FALSE),
                     aliases |-> <<>>]
    /\ registered = <<>>
    /\ context = None
    /\ phase = "idle"
    /\ call = None
    /\ result = None
    /\ trace = <<>>

AddAlias(a) ==
    /\ phase = "idle"
    /\ Len(registered) < MaxAdds
    /\ schemas' = [schemas EXCEPT !.aliases = addAlias(@, a.spec, a.alias)]
    /\ registered' = Append(registered, a)
    /\ UNCHANGED <<context, phase, call, result, trace>>

\* getSchemaForSpec(spec) and getDescription(spec)
LookupAliased(spec) ==
    /\ phase = "idle"
    /\ result' = Some([loader      |-> getSchemaForSpecAliased(schemas, spec),
                       description |-> getDescriptionAliased(schemas, spec)])
    /\ call' = Some([op |-> "lookup", spec |-> spec])
    /\ phase' = "done"
    /\ UNCHANGED <<schemas, context, trace, registered>>

NextAlias ==
    \/ \E a \in AliasCalls : AddAlias(a)
    \/ \E spec \in AliasLookups : LookupAliased(spec)
    \/ TakeResult

SpecAlias == InitAlias /\ [][NextAlias]_vars

\* the alias of the last addAlias call for the key of spec among the first n
\* calls made, if any
RECURSIVE lastAliasOf(_, _)
lastAliasOf(spec, n) ==
    IF n = 0 THEN None
    ELSE IF flattenTySpec(registered[n].spec) = flattenTySpec(spec) THEN Some(registered[n].alias)
    ELSE lastAliasOf(spec, n - 1)

aliasOf(spec) == lastAliasOf(spec, Len(registered))

\* what the registry gives for spec when no alias is looked at
plainLookup(spec) ==
    [loader      |-> getSchemaForSpec(schemas.parser, spec),
     description |-> getDescription(schemas, "parser", spec)]

\* the specification at the end of the chain of aliases that starts at spec
RECURSIVE endOfChain(_, _)
endOfChain(spec, fuel) ==
    IF aliasOf(spec) = None \/ fuel = 0 THEN spec
    ELSE endOfChain(unwrap(aliasOf(spec)), fuel - 1)

\* C22: after addAlias(S, A) a lookup of S, loader and description, gives what
\* the lookup of A gives, and along a chain of aliases what the registry holds
\* for the specification at the end of the chain, which has no alias; a
\* specification without alias is looked up as it is.
C22_LookupFollowsAliases ==
    (phase = "done" /\ theCall.op = "lookup") =>
        LET end == endOfChain(theCall.spec, Len(registered))
        IN  /\ aliasOf(end) = None
            /\ theResult = plainLookup(end)
            /\ aliasOf(theCall.spec) # None =>
                  theResult = [loader      |-> getSchemaForSpecAliased(schemas, unwrap(aliasOf(theCall.spec))),
                               description |-> getDescriptionAliased(schemas, unwrap(aliasOf(theCall.spec)))]
            /\ aliasOf(theCall.spec) = None => theResult = plainLookup(theCall.spec)

\* with Short aliased to customArray and customArray to [customArray, AnyTy],
\* Short resolves to the MyArray loader of anything
C22_Witness ==
    /\ phase = "done"
    /\ theCall = [op |-> "lookup", spec |-> Atom("Short")]
    /\ aliasOf(Atom("Short")) = Some(Atom("customArray"))
    /\ aliasOf(Atom("customArray")) = Some(List(<<Atom("customArray"), AnyTy>>))
    /\ theResult.loader = [right |-> Some(arraySchema(AnyTy, "MyArray"))]
    /\ theResult.description = [right |-> <<"custom array">>]

\* the example: bare customArray, aliased to [customArray, AnyTy], resolves as
\* [customArray, AnyTy] does, and not to the arity error it gives without alias
C22_WitnessExample ==
    /\ phase = "done"
    /\ theCall = [op |-> "lookup", spec |-> Atom("customArray")]
    /\ registered = <<[spec |-> Atom("customArray"), alias |-> List(<<Atom("customArray"), AnyTy>>)]>>
    /\ theResult = plainLookup(List(<<Atom("customArray"), AnyTy>>))
    /\ IsRight(theResult.loader)
    /\ IsThrown(plainLookup(Atom("customArray")).loader)

---------------------------------------------------------------------------
(* One parser instance serving one call after another.  `registered` is    *)
(* here the list of the calls that are over: the method and how it ended.  *)

CallTexts ==
    { [doc |-> [boolean |-> TRUE]], [doc |-> [null |-> TRUE]], [malformed |-> TRUE],
      [doc |-> [array |-> <<[boolean |-> TRUE], [number |-> 1]>>]],
      [doc |-> [object |-> <<[k |-> "p1", v |-> [number |-> 1]]>>]] }

CallSpecs ==
    { Atom("Boolean"), Atom("Unknown"), Atom("Thrower"), Atom("Described"), Atom("Empty"),
      Atom("ReentrantFailing"), Atom("ReentrantOrThrow"),
      List(<<Atom("Array"), Atom("Boolean")>>),
      List(<<Atom("Array"), Atom("Boolean"), Atom("Number")>>),
      List(<<Atom("anyOf"), Atom("Unknown"), Atom("Boolean")>>) }

InitCalls ==
    /\ \E u \in {registerAll(emptySchemas, "user",
                             <<emptyRegistration, throwerRegistration, describedRegistration>>
                             \o reentrantRegistrations)} :
          schemas = [default |-> defaultSchema, user |-> u,
                     parser |-> newJsonParserSchemas(u, FALSE)]
    /\ registered = <<>>
    /\ context = None
    /\ phase = "idle"
    /\ call = None
    /\ result = None
    /\ trace = <<>>

\* how a call ended
endingOf(out) ==
    IF IsThrown(out) THEN "thrown" ELSE IF IsLeft(out) THEN "failure" ELSE "value"

\* the caller has the result and goes on to the next call on the same parser
NextCall ==
    /\ phase = "done"
    /\ Len(registered) < MaxCalls
    /\ registered' = Append(registered, [op |-> unwrap(call).op, ended |-> endingOf(unwrap(result))])
    /\ phase' = "idle"
    /\ call' = None
    /\ result' = None
    /\ trace' = <<>>
    /\ UNCHANGED <<schemas, context>>

NextCalls ==
    \/ \E text \in CallTexts : \E cls \in CallSpecs : ParseAs(text, cls)
    \/ \E text \in CallTexts : \E cls \in CallSpecs : ParseAsOrThrow(text, cls)
    \/ NextCall

SpecCalls == InitCalls /\ [][NextCalls]_vars

\* the call on a parser that has served no call before
onFreshParser ==
    IF theCall.op = "parseAs"
    THEN parseAs(schemas, [context |-> None, trace |-> <<>>], theCall.text, theCall.spec)
    ELSE parseAsOrThrow(schemas, [context |-> None, trace |-> <<>>], theCall.text, theCall.spec)

\* C23: whatever calls of parseAs and parseAsOrThrow a parser has served, and
\* however they ended, a call gives what it gives on a parser that has served
\* none: the same value, or the same failure or exception with the same
\* context and message; and it leaves the parser as a fresh one.
C23_OutcomeIndependentOfEarlierCalls ==
    phase = "done" =>
        /\ theResult = onFreshParser.out
        /\ trace = onFreshParser.ps.trace
        /\ context = onFreshParser.ps.context

\* after a call that threw and a call that failed, parseAs fails inside an
\* array with the context of that failure only
C23_Witness ==
    /\ phase = "done"
    /\ Len(registered) = 2
    /\ registered[1].ended = "thrown"
    /\ registered[2].ended = "failure"
    /\ theCall.op = "parseAs"
    /\ theCall.spec = List(<<Atom("Array"), Atom("Boolean")>>)
    /\ theFailure # None
    /\ unwrap(theFailure).err = "JsonTypeError"
    /\ Len(unwrap(theFailure).context) = 4

---------------------------------------------------------------------------
(* Where a failure inside an array or an object is reported.               *)

mapCase ==
    /\ phase = "done"
    /\ "doc" \in DOMAIN theCall.text
    /\ "object" \in DOMAIN theCall.text.doc
    /\ ~hasProtoMember(theDoc)
    /\ IsRight(rootSchema)
    /\ isSome(rootSchema.right)
    /\ "h" \in DOMAIN unwrap(rootSchema.right)["onObject"]
    /\ unwrap(rootSchema.right)["onObject"].h = "genObjectMapSchema"

\* what loading member j on its own against the map's value specification gives
memberLoad(j) ==
    loadAs(schemas, [context |-> Some(topLevelContext), trace |-> <<>>],
           theObject[j].v, unwrap(rootSchema.right)["onObject"].kfun).out

firstFailingMember ==
    CHOOSE j \in 1..Len(theObject) :
        /\ ~IsRight(memberLoad(j))
        /\ \A i \in 1..(j - 1) : IsRight(memberLoad(i))

\* the trail of the failure `inner` of a nested value loaded on its own, put
\* under the root's frame and the frame `at` of the place of the nested value
locatedAt(at, inner) == Append(rootContext, at) \o Tail(inner.context)

\* the call's failure has the trail of `inner` at the place `at`, beginning
\* with the root's frame, the place and the nested value's frame
failsAt(at, nested, spec, inner) ==
    /\ theFailure # None
    /\ unwrap(theFailure).context = locatedAt(at, inner)
    /\ Len(unwrap(theFailure).context) >= 4
    /\ SubSeq(unwrap(theFailure).context, 1, 4) =
          readingValueForSpec(Append(rootContext, at), "parser", spec, nested)

\* the first failing element of an array, field of an object or member of a
\* map failed with a failure value, and the call's failure is located there
arrayFailureLocated ==
    (arrayCase /\ (\E i \in 1..Len(theArray) : ~IsRight(elemLoad(i)))
               /\ IsLeft(elemLoad(firstFailingElem)))
    => failsAt([fr |-> "AtIndex", index |-> firstFailingElem - 1],
               theArray[firstFailingElem], theElementSpec, elemLoad(firstFailingElem).left)

objectFailureLocated ==
    (objectCase /\ (\E j \in declaredMembers : ~IsRight(fieldLoad(j)))
                /\ IsLeft(fieldLoad(firstFailing)))
    => failsAt([fr |-> "KeyEntered", key |-> theObject[firstFailing].k],
               theObject[firstFailing].v, fieldSpec(theObject[firstFailing].k),
               fieldLoad(firstFailing).left)

mapFailureLocated ==
    (mapCase /\ (\E j \in 1..Len(theObject) : ~IsRight(memberLoad(j)))
             /\ IsLeft(memberLoad(firstFailingMember)))
    => failsAt([fr |-> "KeyEntered", key |-> theObject[firstFailingMember].k],
               theObject[firstFailingMember].v, unwrap(rootSchema.right)["onObject"].kfun,
               memberLoad(firstFailingMember).left)

\* C24: a failure at element i of an array loaded by arraySchema, or at key k
\* of an object loaded by objectSchema or objectSchemaMap, has as its context,
\* from the outside in, the frame of the enclosing value, the frame of index i
\* or key k, the frame of the nested value and then the frames of the failure
\* inside the nested value, and no other frame.
C24_NestedFailureLocated ==
    arrayFailureLocated /\ objectFailureLocated /\ mapFailureLocated

\* every load of the call so far returned with the context it was called with
framesBalanced ==
    \A t \in 1..Len(trace) : trace[t].ev = "return" => trace[t].after = trace[t].before

\* the same, for the calls in which no load left a frame behind
C24_NestedFailureLocatedWhenBalanced ==
    framesBalanced => C24_NestedFailureLocated

\* [true, 1] against [Array, [anyOf, Unknown, Boolean]]: the failure of index
\* 1 has the frame of index 0 in its context
C24_Witness ==
    /\ arrayCase
    /\ theCall.spec = List(<<Atom("Array"), List(<<Atom("anyOf"), Atom("Unknown"), Atom("Boolean")>>)>>)
    /\ Len(theArray) = 2
    /\ IsRight(elemLoad(1))
    /\ IsLeft(elemLoad(2))
    /\ theFailure # None
    /\ unwrap(theFailure).context[3] = [fr |-> "AtIndex", index |-> 0]
    /\ unwrap(theFailure).context[4] = [fr |-> "AtIndex", index |-> 1]

---------------------------------------------------------------------------
(* When the context of an error is rendered.                               *)

\* alternative j of the root anyOf ends with a JsonParseError: it fails with
\* one when loaded on its own, or its specification is not registered
discarded(j) ==
    \/ IsLeft(altLoad(j))
    \/ getSchemaForSpec(schemas.parser, theAlternatives[j]) = [right |-> None]

\* C25, as stated: a context is rendered, and the descriptions of its frames
\* looked up, only when the message of an error is read, so that the errors of
\* the alternatives anyOf discards are never rendered: what rendering them
\* would throw does not reach the parse, and the first alternative that loads
\* after alternatives that end with a JsonParseError gives the result.
C25_DiscardedAlternativesNeverRendered ==
    (anyOfCase /\ ~hasProtoMember(theDoc)) =>
        \A i \in 1..Len(theAlternatives) :
            ((\A j \in 1..(i - 1) : discarded(j)) /\ IsRight(altLoad(i))) =>
                theValue = Some(altLoad(i).right)

\* the failure values the loads of the call returned
returnedFailures ==
    {unwrap(trace[t].failure) : t \in {u \in 1..Len(trace) : /\ trace[u].ev = "return"
                                                            /\ trace[u].failure # None}}

\* the first alternative of the root anyOf that does not fail with a failure value
firstNotFailing ==
    CHOOSE i \in 1..Len(theAlternatives) : ~IsLeft(altLoad(i)) /\ failBefore(i)

\* C25, amended: the context is rendered when the JsonParseError is
\* constructed, not when a frame is pushed and not when the message is read.
\* Every failure value a load returns, the discarded ones included, already
\* holds the rendering of its whole context in front of its own line; and what
\* rendering throws while the error of an anyOf alternative is constructed
\* ends the call, whatever the alternatives after it would give.
C25_RenderedAtConstruction ==
    /\ \A f \in returnedFailures :
          LET r == renderFull(schemas, f.context)
          IN  /\ IsRight(r)
              /\ Len(f.message) > Len(r.right)
              /\ SubSeq(f.message, 1, Len(r.right) + 1) = r.right \o <<"\n">>
    /\ (anyOfCase /\ ~hasProtoMember(theDoc) /\ \E i \in 1..Len(theAlternatives) : ~IsLeft(altLoad(i)))
          => (IsThrown(altLoad(firstNotFailing)) => theResult = altLoad(firstNotFailing))

\* null against [anyOf, Unknown, Described]: Described loads null, but the call
\* throws what describing the anyOf frame threw when the error of Unknown was
\* constructed
C25_Witness ==
    /\ anyOfCase
    /\ theCall.op = "parseAs"
    /\ theCall.text = [doc |-> [null |-> TRUE]]
    /\ theAlternatives = <<Atom("Unknown"), Atom("Described")>>
    /\ discarded(1)
    /\ IsRight(altLoad(2))
    /\ IsThrown(theResult)
    /\ theResult.thrown.exc = "WrongNumberOfArgumentsError"
    /\ theResult = renderFull(schemas, rootContext \o staleFrames(1))

\* 1 against [anyOf, Boolean, Number]: the discarded failure of Boolean holds
\* its rendered context
C25_WitnessDiscarded ==
    /\ anyOfCase
    /\ theAlternatives = <<Atom("Boolean"), Atom("Number")>>
    /\ theValue = Some([number |-> 1])
    /\ \E f \in returnedFailures :
          /\ f.err = "JsonTypeError"
          /\ f.message[1] = "When trying to read a value for specification: "

\* null against Described: the frame of Described, whose description throws,
\* was pushed and popped without being rendered
C25_WitnessPushed ==
    /\ phase = "done"
    /\ theCall.op = "parseAs"
    /\ theCall.spec = Atom("Described")
    /\ IsThrown(getDescription(schemas, "parser", Atom("Described")))
    /\ IsRight(theResult)

---------------------------------------------------------------------------
(* groupingStartAndEnd as a function of its own: it is called on a nested  *)
(* list, a prefix and a suffix, and the caller takes the result.           *)

\* the lists of at most MaxGroup elements taken from E
listsOver(E) == UNION {[1..n -> E] : n \in 0..MaxGroup}

\* nested lists by shape: every element is x; lists of elements and of groups
\* of no, one or two elements; and the nested lists of the tests of
\* "list grouping", which go deeper
GroupShapes ==
    listsOver({Atom("x"), List(<<>>), List(<<Atom("x")>>), List(<<Atom("x"), Atom("x")>>)})
    \cup { <<List(<<List(<<Atom("x"), Atom("x")>>), Atom("x")>>), Atom("x")>>,
           <<List(<<List(<<Atom("x"), Atom("x")>>), Atom("x")>>), Atom("x"),
             List(<<Atom("x"), Atom("x")>>)>>,
           <<List(<<List(<<Atom("x"), Atom("x")>>), Atom("x")>>),
             List(<<Atom("x"), Atom("x")>>), Atom("x")>>,
           <<Atom("x"), List(<<Atom("x"), List(<<Atom("x")>>)>>), Atom("x")>>,
           <<List(<<Atom("x"), List(<<Atom("x"), Atom("x")>>)>>),
             List(<<Atom("x"), List(<<Atom("x")>>)>>), Atom("x")>>,
           <<List(<<List(<<>>), List(<<List(<<Atom("x")>>)>>)>>), Atom("x")>> }

\* the nested list of shape xs whose elements are from, from + 1, ... in order
RECURSIVE numbered(_, _)
numbered(xs, from) ==
    IF xs = <<>> THEN <<>>
    ELSE IF isArray(xs[1])
         THEN <<List(numbered(xs[1].list, from))>>
              \o numbered(Tail(xs), from + Len(flatten(xs[1].list)))
         ELSE <<Atom(from)>> \o numbered(Tail(xs), from + 1)

\* the calls: the nested list, and for prefix and suffix a split of its
\* elements, as many other elements, or one element too few
GroupingCalls ==
    UNION { LET g == numbered(shape, 1)
                f == flatten(g)
                o == flatten(numbered(shape, 11))
            IN  { [groupedVersion |-> g, prefix |-> SubSeq(h, 1, k), suffix |-> SubSeq(h, k + 1, Len(h))] :
                    h \in {f, o}, k \in 0..Len(f) }
                \cup { [groupedVersion |-> g, prefix |-> SubSeq(f, 1, k), suffix |-> SubSeq(f, k + 2, Len(f))] :
                         k \in 0..(Len(f) - 1) }
          : shape \in GroupShapes }

InitGrouping ==
    /\ schemas = [default |-> emptySchemas]
    /\ registered = <<>>
    /\ context = None
    /\ phase = "idle"
    /\ call = None
    /\ result = None
    /\ trace = <<>>

GroupingStartAndEnd(c) ==
    /\ phase = "idle"
    /\ result' = Some(groupingStartAndEnd(c.groupedVersion, c.prefix, c.suffix))
    /\ call' = Some([op |-> "groupingStartAndEnd"] @@ c)
    /\ phase' = "done"
    /\ UNCHANGED <<schemas, context, trace, registered>>

NextGrouping ==
    \/ \E c \in GroupingCalls : GroupingStartAndEnd(c)
    \/ TakeResult

SpecGrouping == InitGrouping /\ [][NextGrouping]_vars

groupingCase ==
    /\ phase = "done"
    /\ theCall.op = "groupingStartAndEnd"
    /\ Len(theCall.prefix) + Len(theCall.suffix) = Len(flatten(theCall.groupedVersion))

RECURSIVE hasEmptyGroup(_)
hasEmptyGroup(xs) ==
    \E i \in 1..Len(xs) : isArray(xs[i]) /\ (xs[i].list = <<>> \/ hasEmptyGroup(xs[i].list))

C26_WitnessOther ==
    /\ groupingCase
    /\ theCall.groupedVersion = <<Atom(1), Atom(2)>>
    /\ theCall.prefix = <<Atom(11)>>
    /\ theResult.right = [prefixGrouped |-> <<Atom(11)>>, suffixGrouped |-> <<Atom(12)>>]

---------------------------------------------------------------------------
(* A NestMap of its own: set calls, and getBestAndRest on what they built. *)
(* `schemas.map` is the NestMap, `registered` the paths set so far; the     *)
(* value set by the n-th call is n.                                        *)

NestMapSets ==
    { <<"k1">>, <<"k2">>, <<"k1", "k2">>, <<"k1", "k3">>, <<"k1", "k2", "k3">> }

NestMapQueries ==
    { <<"k">>, <<"k1">>, <<"k2">>, <<"k1", "k2">>, <<"k1", "k3">>, <<"k2", "k1">>,
      <<"k1", "k2", "k3">>, <<"k1", "k3", "k2">>, <<"k1", "k2", "k3", "k1">> }

InitNestMap ==
    /\ schemas = [map |-> NewNestMap]
    /\ registered = <<>>
    /\ context = None
    /\ phase = "idle"
    /\ call = None
    /\ result = None
    /\ trace = <<>>

\* m.set(ks, Len(registered) + 1)
NestMapSet(ks) ==
    /\ phase = "idle"
    /\ Len(registered) < MaxAdds
    /\ schemas' = [schemas EXCEPT !.map = set(@, ks, Len(registered) + 1)]
    /\ registered' = Append(registered, ks)
    /\ UNCHANGED <<context, phase, call, result, trace>>

\* m.getBestAndRest(ks)
NestMapGetBestAndRest(ks) ==
    /\ phase = "idle"
    /\ result' = Some(getBestAndRest(schemas.map, ks))
    /\ call' = Some([op |-> "getBestAndRest", path |-> ks])
    /\ phase' = "done"
    /\ UNCHANGED <<schemas, context, trace, registered>>

NextNestMap ==
    \/ \E ks \in NestMapSets : NestMapSet(ks)
    \/ \E ks \in NestMapQueries : NestMapGetBestAndRest(ks)
    \/ TakeResult

SpecNestMap == InitNestMap /\ [][NextNestMap]_vars

bestAndRestCase == phase = "done" /\ theCall.op = "getBestAndRest"

\* the value the last set call for the path p gave it, if any
valueAt(p) ==
    LET I == {n \in 1..Len(registered) : registered[n] = p}
    IN  IF I = {} THEN None ELSE Some(CHOOSE n \in I : \A n2 \in I : n2 <= n)

\* some set call went through p to a longer path: p's last key holds a sub-map
subMapAt(p) ==
    \E n \in 1..Len(registered) : Len(registered[n]) > Len(p) /\ IsPrefix(p, registered[n])

thePath == theCall.path

prefixOfPath(i) == SubSeq(thePath, 1, i)

restOfPath(i) == SubSeq(thePath, i + 1, Len(thePath))

\* C27: getBestAndRest gives none when the first key of the path is absent,
\* and also when a key of the path holds a sub-map (with or without a value)
\* and the next key of the path is not in that sub-map; when it comes to a key
\* that holds a value and no sub-map it gives that value with all the keys
\* after it as the rest; at the last key of the path it gives the value held
\* there, if any, with an empty rest.
C27_GetBestAndRest ==
    bestAndRestCase =>
        /\ (valueAt(prefixOfPath(1)) = None /\ ~subMapAt(prefixOfPath(1))) => theResult = None
        /\ \A i \in 1..(Len(thePath) - 1) :
              ( /\ \A j \in 1..i : subMapAt(prefixOfPath(j))
                /\ valueAt(prefixOfPath(i + 1)) = None
                /\ ~subMapAt(prefixOfPath(i + 1)) )
              => theResult = None
        /\ \A i \in 1..Len(thePath) :
              ( /\ \A j \in 1..(i - 1) : subMapAt(prefixOfPath(j))
                /\ valueAt(prefixOfPath(i)) # None
                /\ ~subMapAt(prefixOfPath(i)) )
              => theResult = Some([v |-> unwrap(valueAt(prefixOfPath(i))), rest |-> restOfPath(i)])
        /\ (\A j \in 1..Len(thePath) : subMapAt(prefixOfPath(j)))
              => theResult = IF valueAt(thePath) = None THEN None
                             ELSE Some([v |-> unwrap(valueAt(thePath)), rest |-> <<>>])

\* the map {k1 -> 1, [k1, k2] -> 2} queried with [k1, k3] gives none
C27_Witness ==
    /\ bestAndRestCase
    /\ registered = << <<"k1">>, <<"k1", "k2">> >>
    /\ thePath = <<"k1", "k3">>
    /\ valueAt(<<"k1">>) = Some(1)
    /\ subMapAt(<<"k1">>)
    /\ theResult = None

\* the map {[k1, k2] -> 1} queried with [k1, k2, k3] gives 1 and the rest [k3]
C27_WitnessRest ==
    /\ bestAndRestCase
    /\ registered = << <<"k1", "k2">> >>
    /\ thePath = <<"k1", "k2", "k3">>
    /\ theResult = Some([v |-> 1, rest |-> <<"k3">>])

---------------------------------------------------------------------------
(* The registry a description builder looks inner descriptions up in. *)

Containers == {Atom("Array"), Atom("Object"), Atom("Map")}

\* a parser built with a caller registry was asked for [W, S], W one of
\* Array, Object and Map resolved to its built-in entry, S registered with a
\* description by the caller
containerOfCallerSpec ==
    /\ lookedUp("newJsonParser")
    /\ isArray(theCall.spec)
    /\ Len(theCall.spec.list) = 2
    /\ theCall.spec.list[1] \in Containers
    /\ theResult.parser.descFn = mostSpecificDescription(schemas.default, theCall.spec)
    /\ get(schemas[theCall.of], <<theCall.spec.list[2]>>) # None
    /\ unwrap(get(schemas[theCall.of], <<theCall.spec.list[2]>>)).description # None

theContainer == theCall.spec.list[1]

theInner == theCall.spec.list[2]

containerPhrase(W) ==
    CASE W = Atom("Array")  -> <<"Array of ">>
      [] W = Atom("Object") -> <<"Object whose values are ">>
      [] W = Atom("Map")    -> <<"Map with string keys and values matching ">>

\* the registries among A, B, C that register Empty, whose description
\* builder describes its argument through getDesc
registeringEmpty ==
    {i \in DOMAIN RegistryNames : get(schemas[RegistryNames[i]], <<Atom("Empty")>>) # None}

lastRegisteringEmpty ==
    RegistryNames[CHOOSE i \in registeringEmpty : \A j \in registeringEmpty : j <= i]

\* mergeSchemas(A, B, C) was asked for [Empty, Boolean], Empty registered
emptyOfBoolean ==
    /\ lookedUp("mergeSchemas")
    /\ theCall.spec = List(<<Atom("Empty"), Atom("Boolean")>>)
    /\ registeringEmpty # {}

\* C28: when the registry of a parser describes [Array, S], [Object, S] or
\* [Map, S] through the built-in entry of the container, for an S the caller
\* registered with a description, the description of S inside is the one the
\* built-in registry alone gives, not the one the caller registered, although
\* the parser's registry describes S itself as the caller registered it; and
\* a merge of registries describes the argument of a builder as the registry
\* the builder was added to describes it.
C28_InnerDescriptionFromBuiltIns ==
    /\ emptyOfBoolean =>
          theResult.flat.description =
             [right |-> <<"Array of ">>
                        \o getDescription(schemas, lastRegisteringEmpty, Atom("Boolean")).right]
    /\ containerOfCallerSpec =>
        /\ theResult.parser.description =
               [right |-> containerPhrase(theContainer)
                          \o getDescription(schemas, "default", theInner).right]
        /\ getDescription(schemas, "parser", theInner) = getDescription(schemas, theCall.of, theInner)
        /\ theResult.parser.description #
               [right |-> containerPhrase(theContainer)
                          \o getDescription(schemas, theCall.of, theInner).right]

\* A registers Empty and B registers Boolean with the description "B": the
\* merge describes Boolean as "B" and [Empty, Boolean] as A does
C28_WitnessMerged ==
    /\ emptyOfBoolean
    /\ registeringEmpty = {1}
    /\ get(schemas.A, <<Atom("Boolean")>>) = None
    /\ getDescription(schemas, "flat", Atom("Boolean")) = [right |-> <<"B">>]
    /\ theResult.flat.description = [right |-> <<"Array of ", "Boolean">>]

\* B registers Boolean with the description "B": the parser built with B
\* describes [Object, Boolean] as "Object whose values are boolean"
C28_Witness ==
    /\ containerOfCallerSpec
    /\ theCall.of = "B"
    /\ theCall.spec = List(<<Atom("Object"), Atom("Boolean")>>)
    /\ getDescription(schemas, "parser", Atom("Boolean")) = [right |-> <<"B">>]
    /\ theResult.parser.description = [right |-> <<"Object whose values are ", "boolean">>]

---------------------------------------------------------------------------
(* A caller's registry before and after a parser is built with it: addSpec *)
(* calls on the registry, new JsonParser(registry, noDefault) once, then   *)
(* lookups in the registry and parses with the parser, with further        *)
(* addSpec calls in between.  `registered` is the history: the             *)
(* registrations in order, and the construction where it happened.         *)

SnapshotRegistrations ==
    { tagged(Atom("Boolean"), "user"),
      Registration(FALSE, Atom("Boolean"), Opts(Text("a flag"), None, None)),
      Registration(FALSE, Atom("Array"), Opts(Text("a list"), None, None)),
      Registration(FALSE, List(<<Atom("Array"), Atom("Boolean")>>), Opts(Text("flags"), None, None)),
      tagged(List(<<Atom("Array"), Atom("Boolean")>>), "user") }

SnapshotSpecs ==
    { Atom("Boolean"), Atom("Array"),
      List(<<Atom("Array"), Atom("Boolean")>>),
      List(<<Atom("Array"), Atom("Number")>>) }

SnapshotTexts ==
    { [doc |-> [boolean |-> TRUE]], [doc |-> [array |-> <<[boolean |-> TRUE]>>]] }

constructions == {i \in DOMAIN registered : "constructed" \in DOMAIN registered[i]}

InitSnapshot ==
    /\ schemas = [default |-> defaultSchema, user |-> emptySchemas, parser |-> emptySchemas]
    /\ registered = <<>>
    /\ context = None
    /\ phase = "idle"
    /\ call = None
    /\ result = None
    /\ trace = <<>>

\* new JsonParser(user, noDefault)
NewParser(noDefault) ==
    /\ phase = "idle"
    /\ constructions = {}
    /\ Len(registered) < MaxAdds
    /\ schemas' = [schemas EXCEPT !.parser = newJsonParserSchemas(schemas.user, noDefault)]
    /\ registered' = Append(registered, [constructed |-> TRUE, noDefault |-> noDefault])
    /\ UNCHANGED <<context, phase, call, result, trace>>

\* parser.parseAs(text, cls) on the parser built
ParseWithParser(text, cls) ==
    /\ constructions # {}
    /\ ParseAs(text, cls)

NextSnapshot ==
    \/ \E r \in SnapshotRegistrations : AddSpec(r)
    \/ \E noDefault \in BOOLEAN : NewParser(noDefault)
    \/ \E spec \in SnapshotSpecs : GetSchemaForSpec(spec)
    \/ \E text \in SnapshotTexts : \E cls \in SnapshotSpecs : ParseWithParser(text, cls)
    \/ TakeResult

SpecSnapshot == InitSnapshot /\ [][NextSnapshot]_vars

---------------------------------------------------------------------------
(* Properties of replaced entries and of the parser's registry. *)

\* the registrations among the first n entries of the history
addsWithin(n) == SelectSeq(SubSeq(registered, 1, n), LAMBDA e : "spec" \in DOMAIN e)

theConstruction == CHOOSE i \in constructions : TRUE

\* the last registration among rs of the key of spec, if any
lastFor(rs, spec) ==
    LET is == {i \in DOMAIN rs : flattenTySpec(rs[i].spec) = flattenTySpec(spec)}
    IN  IF is = {} THEN None ELSE Some(rs[CHOOSE i \in is : \A j \in is : j <= i])

\* spec was last registered among rs with a description and no loader
replacedWithoutLoader(rs, spec) ==
    /\ lastFor(rs, spec) # None
    /\ unwrap(lastFor(rs, spec)).opts.load = None

\* some registration among rs gives the key of spec a loader
hadLoader(rs, spec) ==
    \E i \in DOMAIN rs : /\ flattenTySpec(rs[i].spec) = flattenTySpec(spec)
                          /\ rs[i].opts.load # None

lookedUpInRegistry == phase = "done" /\ theCall.op = "getSchemaForSpec"

parsedWithParser == phase = "done" /\ theCall.op = "parseAs"

\* the parse returned an unknown-specification failure for the specification
\* asked, under the frame of the document read for it
unknownSpecForSpecAsked ==
    /\ IsLeft(theResult)
    /\ theResult.left.err = "UnknownSpecError"
    /\ theResult.left.detail = [spec |-> theCall.spec]
    /\ Len(theResult.left.context) = 2
    /\ theResult.left.context[2].fr = "ReadingValueForSpec"
    /\ theResult.left.context[2].spec = theCall.spec

\* C29: a registration replaces the whole entry of its key: when the last
\* addSpec of a key in a registry gave a description and no loader,
\* getSchemaForSpec of the key on that registry is none, whatever was
\* registered for the key or for a prefix of it before; and when the last
\* such addSpec before a parser was built with the registry was of that kind,
\* parsing against the key gives an unknown-specification failure, whatever
\* loader the built-in registry holds for the key or a prefix of it.
C29_EntriesReplacedWhole ==
    /\ (lookedUpInRegistry /\ replacedWithoutLoader(addsWithin(Len(registered)), theCall.spec))
          => theResult = [right |-> None]
    /\ (parsedWithParser /\ replacedWithoutLoader(addsWithin(theConstruction), theCall.spec))
          => unknownSpecForSpecAsked

\* Boolean registered with a loader, then with a description alone
C29_Witness ==
    /\ lookedUpInRegistry
    /\ theCall.spec = Atom("Boolean")
    /\ registered = <<tagged(Atom("Boolean"), "user"),
                      Registration(FALSE, Atom("Boolean"), Opts(Text("a flag"), None, None))>>
    /\ theResult = [right |-> None]

\* [Array, Boolean] registered with a description alone, the parser built
\* with the built-in registry: [true] against [Array, Boolean] is not loaded
\* by the built-in loader of Array
C29_WitnessPrefix ==
    /\ parsedWithParser
    /\ theCall.spec = List(<<Atom("Array"), Atom("Boolean")>>)
    /\ theCall.text = [doc |-> [array |-> <<[boolean |-> TRUE]>>]]
    /\ registered = <<Registration(FALSE, theCall.spec, Opts(Text("flags"), None, None)),
                      [constructed |-> TRUE, noDefault |-> FALSE]>>
    /\ getSchemaForSpec(schemas.default, theCall.spec) # [right |-> None]
    /\ unknownSpecForSpecAsked

\* the registry the parser was built with, as its addSpec calls up to the
\* construction made it
userAtConstruction == registerAll(emptySchemas, "user", addsWithin(theConstruction))

\* the registry new JsonParser(user, noDefault) made at the construction
parserAtConstruction ==
    newJsonParserSchemas(userAtConstruction, registered[theConstruction].noDefault)

addedAfterConstruction == constructions # {} /\ theConstruction < Len(registered)

\* C30: the registry a parser is built with is left as its addSpec calls made
\* it, and so is the built-in registry; the parser resolves every
\* specification to the loader that the registries held when it was built,
\* whatever is added to the caller's registry afterwards, and parses with it.
C30_ParserRegistryIsSnapshot ==
    /\ schemas.user = registerAll(emptySchemas, "user", addsWithin(Len(registered)))
    /\ schemas.default = defaultSchema
    /\ constructions # {} =>
          /\ \A spec \in SnapshotSpecs :
                getSchemaForSpec(schemas.parser, spec) = getSchemaForSpec(parserAtConstruction, spec)
          /\ parsedWithParser =>
                theResult = parseAs([schemas EXCEPT !.user = userAtConstruction,
                                                     !.parser = parserAtConstruction],
                                    [context |-> None, trace |-> <<>>],
                                    theCall.text, theCall.spec).out

\* the parser built with an empty registry, Boolean then given a description
\* alone in that registry: the registry has no loader for Boolean, the parser
\* loads true against Boolean
C30_Witness ==
    /\ parsedWithParser
    /\ addedAfterConstruction
    /\ registered = <<[constructed |-> TRUE, noDefault |-> FALSE],
                      Registration(FALSE, Atom("Boolean"), Opts(Text("a flag"), None, None))>>
    /\ theCall.spec = Atom("Boolean")
    /\ theCall.text = [doc |-> [boolean |-> TRUE]]
    /\ getSchemaForSpec(schemas.user, Atom("Boolean")) = [right |-> None]
    /\ getSchemaForSpec(newJsonParserSchemas(schemas.user, FALSE), Atom("Boolean")) = [right |-> None]
    /\ theResult = [right |-> [boolean |-> TRUE]]

\* a registry looked up after a parser was built with it
C30_WitnessSource ==
    /\ lookedUpInRegistry
    /\ constructions # {}
    /\ Len(addsWithin(theConstruction)) = 2
    /\ theResult # [right |-> None]

====
